---- MODULE Spec2Model ----
(***************************************************************************)
(* Report assembler of qis.portfolio.reports: the five report entry points *)
(* of strategy_benchmark_factsheet.py and multi_strategy_factsheet.py.     *)
(*                                                                         *)
(* A report call is a sequence of page sections.  Each section creates     *)
(* pages in the process-wide pyplot registry and issues one collaborator   *)
(* call per panel; any collaborator call may raise, and the layer has no   *)
(* try/except, so the error leaves the entry point.  The model keeps, per  *)
(* caller, the inputs, the locals of the running call (is_grouped,         *)
(* time_period, kwargs, figs, dfs), the pages it created, the log of       *)
(* collaborator calls with their keyword arguments, and the data of the    *)
(* multi_portfolio_data object it passed in.                               *)
(***************************************************************************)
EXTENDS Integers, Sequences, FiniteSets, TLC

VARIABLES
    call,    \* caller -> the record of its report call (inputs, locals, outcome)
    pages,   \* caller -> sequence of the pages (figures) created inside its call
    pyplot,  \* the process-wide pyplot registry: the set of open figures <<caller, i>>
    data     \* caller -> the data held by the multi_portfolio_data it passes in

vars == <<call, pages, pyplot, data>>

\* ------------------------------------------------------------------ bounds

MaxPortfolios == 3      \* portfolio_datas holds 0..MaxPortfolios portfolios
MaxInstruments == 2     \* columns of the aligned strategy weights
MaxGroups == 2          \* groups of the grouped exposures

Callers == {"c1", "c2"}

\* ------------------------------------------------------------------ values

None == "None"                       \* Python None of an Optional[bool] / Optional[str]
NoTimePeriod == <<>>                 \* time_period=None
GivenTimePeriod == <<2021, 2023>>    \* a window supplied by the caller (years)
NavExtent(i) == <<2018 + i, 2024>>   \* extent of portfolio i's NAV series
NoError == <<>>

EmptyKwargs == [k \in {} |-> ""]

PERF_PARAMS == [freq |-> "W-WED", freq_reg |-> "ME"]
REGIME_PARAMS == [freq |-> "QE"]

\* ------------------------------------------------------------------ qis helpers

\* qis.update_kwargs(kwargs, new_kwargs): a copy of kwargs updated with
\* new_kwargs; a later merge overrides an earlier one for colliding keys.
update_kwargs(kwargs, new_kwargs) ==
    [k \in (DOMAIN kwargs) \cup (DOMAIN new_kwargs) |->
        IF k \in DOMAIN new_kwargs THEN new_kwargs[k] ELSE kwargs[k]]

\* qis.get_time_period(nav): the full extent of the series.
get_time_period(nav_extent) == nav_extent

\* qis.get_time_period_shifted_by_years: the trailing n_years of the window.
get_time_period_shifted_by_years(time_period, n_years) ==
    IF time_period = NoTimePeriod THEN NoTimePeriod
    ELSE <<time_period[2] - n_years, time_period[2]>>

\* the business-daily case forgotten
IsDailyFreqOnlyD(freq) == freq = "D"

\* pd.infer_freq(index) in ['B', 'D']
IsDailyFreq(freq) == freq \in {"B", "D"}

\* a slice taken with its end included
CellsInclusive(r0, r1, c0, c1) == {<<r, c>> : r \in r0 .. r1, c \in c0 .. c1}

\* a slice that keeps only its first row
CellsFirstRow(r0, r1, c0, c1) == {<<r, c>> : r \in {r0}, c \in c0 .. (c1 - 1)}

\* the cells of gs[r0:r1, c0:c1]
Cells(r0, r1, c0, c1) == {<<r, c>> : r \in r0 .. (r1 - 1), c \in c0 .. (c1 - 1)}

NoCells == {}

\* f(name=value, ..., **kwargs): the keyword arguments the callee receives
KwCall(explicit, kwargs) ==
    [k \in (DOMAIN explicit) \cup (DOMAIN kwargs) |->
        IF k \in DOMAIN explicit THEN explicit[k] ELSE kwargs[k]]

\* Python raises TypeError when **kwargs repeats an explicit keyword
KwClash(explicit, kwargs) == (DOMAIN explicit) \cap (DOMAIN kwargs) # {}

\* ------------------------------------------------------------------ steps

MPD == "multi_portfolio_data"
PD == "portfolio_datas"
QIS == "qis"
PLT == "plt"
GSF == "generate_strategy_factsheet"

\* One step of a section.  A collaborator call: target object (with the index
\* into portfolio_datas, -1 for none), method, page it draws on (0 for none),
\* cells of the page's grid, keyword arguments; exc is the error this layer's
\* own expression raises at the call, if any; df is the key of dfs the result
\* is stored under.
CallOf(tgt, idx, m, page, cells, explicit, kwargs, n) ==
    [tgt |-> tgt, idx |-> idx, m |-> m, page |-> page, cells |-> cells,
     args |-> KwCall(explicit, kwargs),
     exc |-> IF idx >= n THEN "IndexError"
             ELSE IF KwClash(explicit, kwargs) THEN "TypeError"
             ELSE "",
     new |-> <<>>, item |-> 0, aslist |-> FALSE, name |-> "", df |-> "", assigns |-> {}]

StoreAs(step, key) == [step EXCEPT !.df = key]

\* a page: what it is for, its grid, and the instrument or portfolio it belongs to (0 for none)
PageOf(kind, nrows, ncols, of) == [kind |-> kind, nrows |-> nrows, ncols |-> ncols, of |-> of]

\* fig = plt.figure(...) / plt.subplots(...), followed by figs.append(fig) or
\* figs[name] = fig: page is the index the new page gets among the caller's pages.
FigureStep(m, page, kind, nrows, ncols, of) ==
    [tgt |-> PLT, idx |-> -1, m |-> m, page |-> page, cells |-> NoCells,
     args |-> EmptyKwargs, exc |-> "",
     new |-> <<PageOf(kind, nrows, ncols, of)>>, item |-> 1,
     aslist |-> FALSE, name |-> "", df |-> "", assigns |-> {}]

\* fig, ax = plt.subplots(...); figs[name] = fig
NamedFigureStep(m, page, name, nrows, ncols) ==
    [FigureStep(m, page, name, nrows, ncols, 0) EXCEPT !.name = name]

\* fig, axs = plt.subplots(...), kept in figs only by a later figs[name] = fig
CreateStep(m, page, name, nrows, ncols) ==
    [FigureStep(m, page, name, nrows, ncols, 0) EXCEPT !.item = 0]

\* the assignment left out: the page stays out of figs
AssignStepDropped(page, name) ==
    [tgt |-> PLT, idx |-> -1, m |-> "figs[name] = fig", page |-> page, cells |-> NoCells,
     args |-> EmptyKwargs, exc |-> "", new |-> <<>>, item |-> 0, aslist |-> FALSE,
     name |-> name, df |-> "", assigns |-> {}]

\* figs[name] = fig
AssignStep(page, name) ==
    [tgt |-> PLT, idx |-> -1, m |-> "figs[name] = fig", page |-> page, cells |-> NoCells,
     args |-> EmptyKwargs, exc |-> "", new |-> <<>>, item |-> 1, aslist |-> FALSE,
     name |-> name, df |-> "", assigns |-> {}]

\* plt.close('all')
CloseAllStep ==
    [tgt |-> PLT, idx |-> -1, m |-> "close_all", page |-> 0, cells |-> NoCells,
     args |-> EmptyKwargs, exc |-> "", new |-> <<>>, item |-> 0, aslist |-> FALSE,
     name |-> "", df |-> "", assigns |-> {}]

\* the lookup of the first benchmark column that never fails
RegimeBenchmarkUnchecked(in) ==
    [tgt |-> MPD, idx |-> -1, m |-> "benchmark_prices.columns[0]", page |-> 0,
     cells |-> NoCells, args |-> EmptyKwargs, exc |-> "",
     new |-> <<>>, item |-> 0, aslist |-> FALSE, name |-> "", df |-> "",
     assigns |-> {}]

\* the first benchmark column renamed in place while it is looked up
RegimeBenchmarkRenamed(in) ==
    [tgt |-> MPD, idx |-> -1, m |-> "benchmark_prices.columns[0]", page |-> 0,
     cells |-> NoCells, args |-> EmptyKwargs,
     exc |-> IF in.bcols = 0 THEN "IndexError" ELSE "",
     new |-> <<>>, item |-> 0, aslist |-> FALSE, name |-> "", df |-> "",
     assigns |-> {"benchmark_prices"}]

\* multi_portfolio_data.benchmark_prices.columns[0]
RegimeBenchmarkOf(in) ==
    [tgt |-> MPD, idx |-> -1, m |-> "benchmark_prices.columns[0]", page |-> 0,
     cells |-> NoCells, args |-> EmptyKwargs,
     exc |-> IF in.bcols = 0 THEN "IndexError" ELSE "",
     new |-> <<>>, item |-> 0, aslist |-> FALSE, name |-> "", df |-> "", assigns |-> {}]

IsCall(step) == step.tgt # PLT

\* the figs entry a step appends: a figure, or the list a collaborator returned
ItemOf(step) ==
    [list |-> step.aslist, name |-> step.name,
     figs |-> [j \in 1 .. step.item |-> step.page + j - 1]]

\* qis.to_flat_list(figs): nested lists of figures become one flat list
RECURSIVE to_flat_list(_)
to_flat_list(figs) ==
    IF figs = <<>> THEN <<>>
    ELSE LET it == Head(figs) IN
         [j \in 1 .. Len(it.figs) |-> [list |-> FALSE, name |-> it.name, figs |-> <<it.figs[j]>>]]
             \o to_flat_list(Tail(figs))

HasItem(step) == step.item > 0
HasTable(step) == step.df # ""
IsFlatten(step) == step.m = "to_flat_list"
IsCloseAll(step) == step.tgt = PLT /\ step.m = "close_all"

\* the position of the last qis.to_flat_list(figs) among the steps, 0 if none
LastFlatten(steps) ==
    LET at == {j \in 1 .. Len(steps) : IsFlatten(steps[j])}
    IN IF at = {} THEN 0 ELSE CHOOSE j \in at : \A j2 \in at : j2 <= j

\* the position of the last plt.close('all') among the steps, 0 if none
LastCloseAll(steps) ==
    LET at == {j \in 1 .. Len(steps) : IsCloseAll(steps[j])}
    IN IF at = {} THEN 0 ELSE CHOOSE j \in at : \A j2 \in at : j2 <= j

ItemsOf(steps) ==
    LET with == SelectSeq(steps, HasItem) IN [j \in 1 .. Len(with) |-> ItemOf(with[j])]

\* the pages the steps create, in order: a step's pages start at its page index
CreatedBy(steps) ==
    LET makers == {j \in 1 .. Len(steps) : steps[j].new # <<>>}
        first == IF makers = {} THEN 1
                 ELSE steps[CHOOSE j \in makers : \A j2 \in makers : j <= j2].page
        total == IF makers = {} THEN 0
                 ELSE LET l == CHOOSE j \in makers : \A j2 \in makers : j2 <= j
                      IN steps[l].page + Len(steps[l].new) - first
    IN [q \in 1 .. total |->
           LET j == CHOOSE j \in makers :
                        /\ steps[j].page <= first + q - 1
                        /\ first + q - 1 < steps[j].page + Len(steps[j].new)
           IN steps[j].new[first + q - steps[j].page]]

\* the locals, the registry and the input object after the steps ran, in order
Apply(st, c, steps) ==
    LET flat == LastFlatten(steps)
        closed == LastCloseAll(steps)
        open == SubSeq(steps, closed + 1, Len(steps))
    IN [figs |-> IF flat = 0 THEN st.figs \o ItemsOf(steps)
                 ELSE to_flat_list(st.figs \o ItemsOf(SubSeq(steps, 1, flat)))
                          \o ItemsOf(SubSeq(steps, flat + 1, Len(steps))),
        dfs |-> st.dfs \o LET with == SelectSeq(steps, HasTable)
                          IN [j \in 1 .. Len(with) |-> <<with[j].df, with[j].m>>],
        log |-> st.log \o SelectSeq(steps, IsCall),
        created |-> CreatedBy(steps),
        data |-> [a \in DOMAIN st.data |->
                     IF \E j \in 1 .. Len(steps) : a \in steps[j].assigns
                     THEN -1 ELSE st.data[a]],        \* -1: no longer what was passed in
        reg |-> (IF closed = 0 THEN st.reg ELSE {})
                    \cup UNION {{<<c, open[j].page + q - 1>> : q \in 1 .. Len(open[j].new)} :
                                   j \in 1 .. Len(open)}]

\* ------------------------------------------------------------------ calls

NoInput == [fn |-> ""]

\* what the multi_portfolio_data of a call holds: the number of portfolios in
\* portfolio_datas, the number of columns of benchmark_prices, and covar_dict
NoData == [portfolio_datas |-> 0, benchmark_prices |-> 0, covar_dict |-> 0]
DataOf(in) == [portfolio_datas |-> in.n, benchmark_prices |-> in.bcols, covar_dict |-> 1]
NoResult == <<>>

IdleCall ==
    [status |-> "idle", in |-> NoInput, pc |-> "", is_grouped |-> FALSE,
     time_period |-> NoTimePeriod, kwargs |-> EmptyKwargs, figs |-> <<>>,
     dfs |-> <<>>, log |-> <<>>, err |-> NoError, result |-> NoResult]

\* the frame of a call that has just been entered with the inputs in
Entered(in) == [IdleCall EXCEPT !.status = "running", !.in = in, !.pc = "entry",
                                !.kwargs = in.kwargs]

\* the error swallowed and the pages assembled so far returned
PropagateCaught(cur, e) ==
    [cur EXCEPT !.status = "returned", !.pc = "returned", !.err = e,
                !.result = [kind |-> "list", pages |-> cur.figs, tables |-> <<>>]]

\* An error raised inside an entry point: no statement of this layer is inside
\* a try block, so the error leaves the entry point as it is and nothing is
\* returned.
Propagate(cur, e) ==
    [cur EXCEPT !.status = "raised", !.pc = "raised", !.err = e, !.result = NoResult]

\* the error a step raises: the layer's own, or whatever the collaborator raised
ErrorOf(step) ==
    IF step.exc # "" THEN <<step.exc, step.m>> ELSE <<"CollaboratorError", step.m>>

\* A section of a call runs its steps in order.  Either all of them complete
\* and the locals in fin are set, or the k-th step raises: the steps before it
\* have had their effect and the error propagates.
Exec(c, cur, steps, fin) ==
    \E k \in 1 .. (Len(steps) + 1) :
        LET st == Apply([figs |-> cur.figs, dfs |-> cur.dfs, log |-> cur.log,
                         created |-> <<>>, reg |-> pyplot,
                         data |-> IF call[c].status = "idle" THEN DataOf(cur.in)
                                  ELSE data[c]],
                        c, SubSeq(steps, 1, k - 1))
            after == [cur EXCEPT !.figs = st.figs, !.dfs = st.dfs, !.log = st.log]
        IN  /\ \A j \in 1 .. (k - 1) : steps[j].exc = ""
            /\ k <= Len(steps) => IsCall(steps[k])
            /\ pages' = [pages EXCEPT ![c] = @ \o st.created]
            /\ pyplot' = st.reg
            /\ data' = [data EXCEPT ![c] = st.data]
            /\ call' = [call EXCEPT ![c] =
                   IF k <= Len(steps)
                   THEN Propagate([after EXCEPT !.log = IF steps[k].exc = "" THEN Append(@, steps[k]) ELSE @],
                                  ErrorOf(steps[k]))
                   ELSE [f \in DOMAIN after |->
                            IF f \in DOMAIN fin THEN fin[f] ELSE after[f]]]

\* ------------------------------------------------------------------
\* generate_strategy_benchmark_factsheet_plt

SBF == "generate_strategy_benchmark_factsheet_plt"
GroupedThreshold == 10
RegimeBenchmark == "benchmark_prices.columns[0]"    \* the name of the first benchmark column

\* the check made for an empty list instead of a single portfolio
PreconditionFailsOnEmpty(n) == n = 0

\* if len(multi_portfolio_data.portfolio_datas) == 1: raise ValueError
PreconditionFails(n) == n = 1

PreconditionError == <<"ValueError", "must be at least two strategies">>

\* the threshold compared strictly
AutoGroupedStrict(wcols) == wcols > GroupedThreshold

\* is_grouped left unset: grouped when the first portfolio has ten or more weight columns
AutoGrouped(wcols) == wcols >= GroupedThreshold

SbfIsGrouped(in) ==
    IF in.is_grouped = None THEN AutoGrouped(in.wcols) ELSE in.is_grouped = "True"

\* the window taken from the NAV of the second portfolio
SbfTimePeriodOfSecond(in) ==
    IF in.time_period = NoTimePeriod THEN get_time_period(NavExtent(1)) ELSE in.time_period

\* if time_period is None: the extent of portfolio_datas[0].get_portfolio_nav()
SbfTimePeriod(in) ==
    IF in.time_period = NoTimePeriod THEN get_time_period(NavExtent(0)) ELSE in.time_period

\* the report specific kwargs and their merge with the caller's
SbfPlotKwargs(in, time_period) ==
    [fontsize |-> in.fontsize, linewidth |-> "0.5", digits_to_show |-> 1,
     sharpe_digits |-> 2, weight |-> "normal", markersize |-> 1,
     framealpha |-> "0.75", time_period |-> time_period]

SbfKwargs(in, time_period) == update_kwargs(in.kwargs, SbfPlotKwargs(in, time_period))

\* the grouping decision and the default window read from the strategy's portfolio
SbfEntryStepsOfStrategy(in) ==
    (IF in.is_grouped = None
     THEN <<CallOf(PD, in.strategy_idx, "get_weights", 0, NoCells, EmptyKwargs, EmptyKwargs,
                   in.n)>>
     ELSE <<>>)
    \o
    (IF in.time_period = NoTimePeriod
     THEN <<CallOf(PD, in.strategy_idx, "get_portfolio_nav", 0, NoCells, EmptyKwargs,
                   EmptyKwargs, in.n),
            CallOf(QIS, -1, "get_time_period", 0, NoCells, EmptyKwargs, EmptyKwargs, in.n)>>
     ELSE <<>>)

\* the collaborator calls made before the first page is created
SbfEntrySteps(in) ==
    (IF in.is_grouped = None
     THEN <<CallOf(PD, 0, "get_weights", 0, NoCells, EmptyKwargs, EmptyKwargs, in.n)>>
     ELSE <<>>)
    \o
    (IF in.time_period = NoTimePeriod
     THEN <<CallOf(PD, 0, "get_portfolio_nav", 0, NoCells, EmptyKwargs, EmptyKwargs, in.n),
            CallOf(QIS, -1, "get_time_period", 0, NoCells, EmptyKwargs, EmptyKwargs, in.n)>>
     ELSE <<>>)

\* kwargs of the second performance table: the window shifted by one year and,
\* for a daily or business-daily benchmark index, the regression changed to weekly
SecondTableKwargs(kwargs, bfreq, time_period, fontsize) ==
    LET time_period1 == get_time_period_shifted_by_years(time_period, 1) IN
    IF IsDailyFreq(bfreq)
    THEN update_kwargs(kwargs, [time_period |-> time_period1, alpha_an_factor |-> 52,
                                freq_reg |-> "W-WED", fontsize |-> fontsize])
    ELSE update_kwargs(kwargs, [time_period |-> time_period1, fontsize |-> fontsize])

\* the periodic returns configuration derived from the second table's
\* configuration instead of the base one
PeriodicReturnsKwargsFromLocal(kwargs, fontsize) ==
    update_kwargs(update_kwargs(kwargs,
                                [time_period |->
                                     get_time_period_shifted_by_years(kwargs.time_period, 1),
                                 alpha_an_factor |-> 52, freq_reg |-> "W-WED"]),
                  [fontsize |-> fontsize, square |-> FALSE, x_rotation |-> 90,
                   transpose |-> FALSE])

PeriodicReturnsKwargs(kwargs, fontsize) ==
    update_kwargs(kwargs, [fontsize |-> fontsize, square |-> FALSE, x_rotation |-> 90,
                           transpose |-> FALSE])

RegimeDataKwargs(kwargs, fontsize) ==
    update_kwargs(kwargs, [fontsize |-> fontsize, x_rotation |-> 90])

\* the primary page: a 14x4 grid and its panels
SbfPrimarySteps(in, is_grouped, time_period, kwargs, p) ==
    LET n == in.n
        navs == in.add_benchmarks_to_navs
        rp == in.regime_params
        pp == in.perf_params
        benchmark_prices == IF navs THEN "benchmark_prices" ELSE None
        common == [add_benchmarks_to_navs |-> navs, regime_benchmark |-> RegimeBenchmark,
                   regime_params |-> rp]
        bench == [benchmark |-> RegimeBenchmark, regime_params |-> rp]
        table == [benchmark_price |-> RegimeBenchmark, add_benchmarks_to_navs |-> navs,
                  perf_params |-> pp, is_grouped |-> is_grouped]
        periodic == [is_grouped |-> is_grouped, benchmark_prices |-> benchmark_prices]
        local_kwargs == PeriodicReturnsKwargs(kwargs, in.fontsize)
    IN <<
    FigureStep("figure", p, "primary", 14, 4, 0),
    RegimeBenchmarkOf(in),
    CallOf(MPD, -1, "plot_nav", p, Cells(0, 2, 0, 2),
           [add_benchmarks_to_navs |-> navs, regime_benchmark |-> RegimeBenchmark,
            perf_params |-> pp, regime_params |-> rp, title |-> "Cumulative performance"],
           kwargs, n),
    CallOf(MPD, -1, "plot_drawdowns", p, Cells(2, 4, 0, 2),
           [add_benchmarks_to_navs |-> navs, regime_benchmark |-> RegimeBenchmark,
            regime_params |-> rp, title |-> "Running Drawdowns"], kwargs, n),
    CallOf(MPD, -1, "plot_rolling_time_under_water", p, Cells(4, 6, 0, 2),
           [add_benchmarks_to_navs |-> navs, regime_benchmark |-> RegimeBenchmark,
            regime_params |-> rp, title |-> "Rolling time under water"], kwargs, n),
    CallOf(MPD, -1, "plot_rolling_perf", p, Cells(6, 8, 0, 2), common, kwargs, n),
    CallOf(MPD, -1, "plot_exposures", p, Cells(8, 10, 0, 2), bench, kwargs, n),
    CallOf(MPD, -1, "plot_turnover", p, Cells(10, 12, 0, 2), bench, kwargs, n),
    CallOf(MPD, -1, "plot_costs", p, Cells(12, 14, 0, 2), bench, kwargs, n),
    CallOf(MPD, -1, "plot_ac_ra_perf_table", p, Cells(0, 2, 2, 4), table,
           update_kwargs(kwargs, [fontsize |-> in.fontsize]), n),
    CallOf(MPD, -1, "plot_ac_ra_perf_table", p, Cells(2, 4, 2, 4), table,
           SecondTableKwargs(kwargs, in.bfreq, time_period, in.fontsize), n),
    CallOf(PD, 0, "plot_periodic_returns", p, Cells(4, 6, 2, 3), periodic, local_kwargs, n),
    CallOf(PD, 1, "plot_periodic_returns", p, Cells(4, 6, 3, 4), periodic, local_kwargs, n),
    CallOf(MPD, -1, "plot_regime_data", p, Cells(6, 8, 2, 3),
           [benchmark |-> RegimeBenchmark, add_benchmarks_to_navs |-> navs,
            is_grouped |-> FALSE, title |-> "Sharpe ratio split", perf_params |-> pp,
            regime_params |-> rp], RegimeDataKwargs(kwargs, in.fontsize), n),
    CallOf(PD, 0, "plot_regime_data", p, Cells(6, 8, 3, 4),
           [benchmark_price |-> RegimeBenchmark, add_benchmarks_to_navs |-> navs,
            is_grouped |-> FALSE, title |-> "portfolio_datas[0] Sharpe ratio split",
            perf_params |-> pp, regime_params |-> rp],
           RegimeDataKwargs(kwargs, in.fontsize), n),
    CallOf(MPD, -1, "plot_instrument_pnl_diff", p, Cells(8, 10, 2, 4), bench, kwargs, n),
    CallOf(MPD, -1, "plot_factor_betas", p, Cells(10, 12, 2, 4),
           [benchmark_prices |-> RegimeBenchmark, regime_benchmark |-> RegimeBenchmark,
            regime_params |-> rp], kwargs, n),
    CallOf(MPD, -1, "plot_returns_scatter", p, Cells(12, 14, 2, 4),
           [benchmark |-> RegimeBenchmark],
           update_kwargs(kwargs, [freq |-> pp.freq_reg]), n)
    >>

\* the Brinson page drawn but never appended to figs
SbfBrinsonStepsNotAppended(in, kwargs, p) ==
    <<CreateStep("figure", p, "brinson", 3, 2),
      CallOf(MPD, -1, "plot_brinson_attribution", p,
             {<<0, 0>>, <<0, 1>>, <<1, 0>>, <<1, 1>>, <<2, 1>>},
             [strategy_idx |-> in.strategy_idx, benchmark_idx |-> in.benchmark_idx],
             kwargs, in.n)>>

\* the Brinson page with the interaction term kept as a third term
SbfBrinsonStepsThreeTerm(in, kwargs, p) ==
    <<
    FigureStep("figure", p, "brinson", 3, 2, 0),
    CallOf(MPD, -1, "plot_brinson_attribution", p,
           {<<0, 0>>, <<0, 1>>, <<1, 0>>, <<1, 1>>, <<2, 1>>},
           [strategy_idx |-> in.strategy_idx, benchmark_idx |-> in.benchmark_idx,
            freq |-> None, axs |-> <<<<0, 0>>, <<0, 1>>, <<1, 0>>, <<1, 1>>, <<2, 1>>>>,
            total_column |-> "Total Sum", is_exclude_interaction_term |-> FALSE],
           kwargs, in.n),
    CallOf(MPD, -1, "plot_exposures_diff", p, Cells(2, 3, 0, 1),
           [benchmark |-> RegimeBenchmark, regime_params |-> in.regime_params],
           kwargs, in.n)
    >>

\* if add_brinson_attribution: a 3x2 page, five attribution panels and the
\* exposure difference panel
SbfBrinsonSteps(in, kwargs, p) ==
    <<
    FigureStep("figure", p, "brinson", 3, 2, 0),
    CallOf(MPD, -1, "plot_brinson_attribution", p,
           {<<0, 0>>, <<0, 1>>, <<1, 0>>, <<1, 1>>, <<2, 1>>},
           [strategy_idx |-> in.strategy_idx, benchmark_idx |-> in.benchmark_idx,
            freq |-> None, axs |-> <<<<0, 0>>, <<0, 1>>, <<1, 0>>, <<1, 1>>, <<2, 1>>>>,
            total_column |-> "Total Sum", is_exclude_interaction_term |-> TRUE],
           kwargs, in.n),
    CallOf(MPD, -1, "plot_exposures_diff", p, Cells(2, 3, 0, 1),
           [benchmark |-> RegimeBenchmark, regime_params |-> in.regime_params],
           kwargs, in.n)
    >>

\* if add_tracking_error_table: the table is computed, then drawn on a page of its own
SbfTrackingErrorSteps(in, kwargs, p) ==
    <<
    CallOf(MPD, -1, "compute_tracking_error_table", 0, NoCells,
           [strategy_idx |-> in.strategy_idx, benchmark_idx |-> in.benchmark_idx],
           kwargs, in.n),
    CallOf(QIS, -1, "get_df_table_size", 0, NoCells,
           [df |-> [table |-> "tre_table", inst |-> 0]], EmptyKwargs, in.n),
    FigureStep("subplots", p, "tracking_error", 1, 1, 0),
    CallOf(QIS, -1, "plot_df_table", p, Cells(0, 1, 0, 1),
           [df |-> [table |-> "tre_table", inst |-> 0], first_row_height |-> "0.075",
            var_format |-> "{:.2%}", rotation_for_columns_headers |-> 90, cmap |-> "Blues"],
           kwargs, in.n)
    >>

\* the body of "for inst in strategy_weights.columns", for the instruments from j on;
\* a df built by pd.concat records the table, the instrument or group, and the
\* portfolio each of its two columns is taken from
RECURSIVE SbfInstrumentSteps(_, _, _, _)
SbfInstrumentSteps(in, kwargs, p, j) ==
    IF j > in.ninst THEN <<>>
    ELSE <<
         FigureStep("subplots", p, "exposures_comp", 2, 1, j),
         CallOf(QIS, -1, "plot_time_series", p, Cells(0, 1, 0, 1),
                [df |-> [table |-> "weights", inst |-> j,
                         columns |-> <<in.strategy_idx, in.benchmark_idx>>],
                 title |-> "Exposures",
                 legend_stats |-> "AVG_MIN_MAX_LAST", var_format |-> "{:,.2%}"],
                kwargs, in.n),
         CallOf(QIS, -1, "plot_time_series", p, Cells(1, 2, 0, 1),
                [df |-> [table |-> "turnover", inst |-> j,
                         columns |-> <<in.strategy_idx, in.benchmark_idx>>],
                 title |-> "Turnover",
                 legend_stats |-> "AVG_MIN_MAX_LAST", var_format |-> "{:,.2%}"],
                kwargs, in.n),
         CloseAllStep
         >> \o SbfInstrumentSteps(in, kwargs, p + 1, j + 1)

\* a page for the first column only
SbfExposuresCompStepsFirstColumn(in, is_grouped, kwargs, p) ==
    SbfInstrumentSteps([in EXCEPT !.ninst = IF @ > 0 THEN 1 ELSE 0], kwargs, p, 1)

\* if add_exposures_comp: one exposures/turnover page per column of the aligned weights
SbfExposuresCompSteps(in, is_grouped, kwargs, p) ==
    LET aligned == [strategy_idx |-> in.strategy_idx, benchmark_idx |-> in.benchmark_idx,
                    is_grouped |-> is_grouped]
    IN <<
       CallOf(PD, in.strategy_idx, "ticker", 0, NoCells, EmptyKwargs, EmptyKwargs, in.n),
       CallOf(PD, in.benchmark_idx, "ticker", 0, NoCells, EmptyKwargs, EmptyKwargs, in.n),
       CallOf(MPD, -1, "get_aligned_weights", 0, NoCells, aligned, kwargs, in.n),
       CallOf(MPD, -1, "get_aligned_turnover", 0, NoCells, aligned, kwargs, in.n)
       >> \o SbfInstrumentSteps(in, kwargs, p, 1)

\* the two panels of row g and the rows after it
RECURSIVE SbfGroupSteps(_, _, _, _)
SbfGroupSteps(in, local_kwargs, p, g) ==
    IF g >= in.ngroups THEN <<>>
    ELSE LET panel(idx_, what) ==
                 <<CallOf(QIS, -1, "plot_time_series", p, Cells(g, g + 1, idx_, idx_ + 1),
                          [df |-> [table |-> what, inst |-> g,
                                   columns |-> <<in.strategy_idx, in.benchmark_idx>>],
                           var_format |-> "{:,.0%}",
                           legend_stats |-> "AVG_MIN_MAX_LAST", title |-> what],
                          local_kwargs, in.n),
                   CallOf(MPD, -1, "add_regime_shadows", p, Cells(g, g + 1, idx_, idx_ + 1),
                          [regime_benchmark |-> RegimeBenchmark,
                           regime_params |-> in.regime_params],
                          EmptyKwargs, in.n),
                   CallOf(QIS, -1, "set_spines", p, Cells(g, g + 1, idx_, idx_ + 1),
                          [bottom_spine |-> FALSE, left_spine |-> FALSE],
                          EmptyKwargs, in.n)>>
         IN panel(0, "aggregated net exposures") \o panel(1, "cumulative P&L attribution")
                \o SbfGroupSteps(in, local_kwargs, p, g + 1)

\* the grid gets one row per instrument
SbfExposuresPnlStepsInstrumentRows(in, time_period, kwargs, p) ==
    <<FigureStep("figure", p, "exposures_pnl", in.ninst, 2, 0)>>
        \o SbfGroupSteps(in, update_kwargs(kwargs, [framealpha |-> "0.9"]), p, 0)

\* if add_exposures_pnl_attribution: one page, one row of two panels per group
SbfExposuresPnlSteps(in, time_period, kwargs, p) ==
    LET tp == [time_period |-> time_period] IN
    <<
    CallOf(PD, in.strategy_idx, "ticker", 0, NoCells, EmptyKwargs, EmptyKwargs, in.n),
    CallOf(PD, in.benchmark_idx, "ticker", 0, NoCells, EmptyKwargs, EmptyKwargs, in.n),
    CallOf(PD, in.strategy_idx, "get_grouped_long_short_exposures", 0, NoCells, tp,
           EmptyKwargs, in.n),
    CallOf(PD, in.benchmark_idx, "get_grouped_long_short_exposures", 0, NoCells, tp,
           EmptyKwargs, in.n),
    CallOf(PD, in.strategy_idx, "get_grouped_cum_pnls", 0, NoCells, tp, EmptyKwargs, in.n),
    CallOf(PD, in.benchmark_idx, "get_grouped_cum_pnls", 0, NoCells, tp, EmptyKwargs, in.n),
    FigureStep("figure", p, "exposures_pnl", in.ngroups, 2, 0)
    >> \o SbfGroupSteps(in, update_kwargs(kwargs, [framealpha |-> "0.9"]), p, 0)

\* generate_strategy_factsheet(portfolio_data=...): the pages it returns
generate_strategy_factsheet(i) == <<PageOf("strategy_factsheet", 0, 0, i)>>

\* figs.append(generate_strategy_factsheet(...)) for the portfolios from i on
RECURSIVE FactsheetSteps(_, _, _, _, _)
FactsheetSteps(in, explicit, kwargs, p, i) ==
    IF i >= in.n THEN <<>>
    ELSE LET returned == generate_strategy_factsheet(i) IN
         <<[CallOf(GSF, -1, GSF, 0, NoCells,
                   update_kwargs(explicit, [portfolio_data |-> i]), kwargs, in.n)
            EXCEPT !.page = p, !.new = returned, !.item = Len(returned), !.aslist = TRUE]>>
         \o FactsheetSteps(in, explicit, kwargs, p + Len(returned), i + 1)

\* if add_strategy_factsheet: a sub-factsheet per portfolio, then the list is flattened
SbfFactsheetSteps(in, is_grouped, kwargs, p) ==
    FactsheetSteps(in,
                   [benchmark_prices |-> "benchmark_prices", perf_params |-> in.perf_params,
                    regime_params |-> in.regime_params,
                    add_grouped_exposures |-> in.add_grouped_exposures,
                    add_grouped_cum_pnl |-> in.add_grouped_cum_pnl,
                    is_grouped |-> is_grouped],
                   kwargs, p, 0)
    \o <<CallOf(QIS, -1, "to_flat_list", 0, NoCells, EmptyKwargs, EmptyKwargs, in.n)>>

\* the tracking-error section moved before the Brinson section
SbfOrderSwapped ==
    <<"primary", "tracking_error", "brinson", "exposures_comp", "exposures_pnl",
      "strategy_factsheet", "return">>

\* the sections of the report in the order of the function body
SbfOrder ==
    <<"primary", "brinson", "tracking_error", "exposures_comp", "exposures_pnl",
      "strategy_factsheet", "return">>

SbfEnabled(in, section) ==
    CASE section = "brinson" -> in.add_brinson_attribution
      [] section = "tracking_error" -> in.add_tracking_error_table
      [] section = "exposures_comp" -> in.add_exposures_comp
      [] section = "exposures_pnl" -> in.add_exposures_pnl_attribution
      [] section = "strategy_factsheet" -> in.add_strategy_factsheet
      [] OTHER -> TRUE

\* the first enabled section after pc
SbfNext(in, pc) ==
    LET at == CHOOSE j \in 1 .. Len(SbfOrder) : SbfOrder[j] = pc
        later == {j \in (at + 1) .. Len(SbfOrder) : SbfEnabled(in, SbfOrder[j])}
    IN SbfOrder[CHOOSE j \in later : \A j2 \in later : j <= j2]

\* what "return figs" hands back
ListResult(cur) == [kind |-> "list", pages |-> cur.figs, tables |-> <<>>]

Running(c, fn, pc) ==
    /\ call[c].status = "running"
    /\ call[c].in.fn = fn
    /\ call[c].pc = pc

NextPage(c) == Len(pages[c]) + 1

generate_strategy_benchmark_factsheet_plt(c, in) ==
    /\ call[c].status = "idle"
    /\ in.fn = SBF
    /\ IF PreconditionFails(in.n)
       THEN /\ call' = [call EXCEPT ![c] = Propagate(Entered(in), PreconditionError)]
            /\ data' = [data EXCEPT ![c] = DataOf(in)]
            /\ UNCHANGED <<pages, pyplot>>
       ELSE Exec(c, Entered(in), SbfEntrySteps(in),
                 [pc |-> "primary", is_grouped |-> SbfIsGrouped(in),
                  time_period |-> SbfTimePeriod(in),
                  kwargs |-> SbfKwargs(in, SbfTimePeriod(in))])

SbfPrimaryPage(c) ==
    /\ Running(c, SBF, "primary")
    /\ LET cur == call[c] IN
       Exec(c, cur, SbfPrimarySteps(cur.in, cur.is_grouped, cur.time_period, cur.kwargs,
                                    NextPage(c)),
            [pc |-> SbfNext(cur.in, "primary")])

SbfBrinsonPage(c) ==
    /\ Running(c, SBF, "brinson")
    /\ LET cur == call[c] IN
       Exec(c, cur, SbfBrinsonSteps(cur.in, cur.kwargs, NextPage(c)),
            [pc |-> SbfNext(cur.in, "brinson")])

SbfTrackingErrorPage(c) ==
    /\ Running(c, SBF, "tracking_error")
    /\ LET cur == call[c] IN
       Exec(c, cur, SbfTrackingErrorSteps(cur.in, cur.kwargs, NextPage(c)),
            [pc |-> SbfNext(cur.in, "tracking_error")])

SbfExposuresCompPages(c) ==
    /\ Running(c, SBF, "exposures_comp")
    /\ LET cur == call[c] IN
       Exec(c, cur, SbfExposuresCompSteps(cur.in, cur.is_grouped, cur.kwargs, NextPage(c)),
            [pc |-> SbfNext(cur.in, "exposures_comp")])

SbfExposuresPnlPage(c) ==
    /\ Running(c, SBF, "exposures_pnl")
    /\ LET cur == call[c] IN
       Exec(c, cur, SbfExposuresPnlSteps(cur.in, cur.time_period, cur.kwargs, NextPage(c)),
            [pc |-> SbfNext(cur.in, "exposures_pnl")])

SbfFactsheetPages(c) ==
    /\ Running(c, SBF, "strategy_factsheet")
    /\ LET cur == call[c] IN
       Exec(c, cur, SbfFactsheetSteps(cur.in, cur.is_grouped, cur.kwargs, NextPage(c)),
            [pc |-> SbfNext(cur.in, "strategy_factsheet")])

\* return figs
ReturnFigs(c) ==
    /\ call[c].status = "running"
    /\ call[c].pc = "return"
    /\ call' = [call EXCEPT ![c] =
                   [call[c] EXCEPT !.status = "returned", !.pc = "returned",
                                   !.result = ListResult(call[c])]]
    /\ UNCHANGED <<pages, pyplot, data>>

\* ------------------------------------------------------------------
\* generate_strategy_benchmark_active_perf_plt

ACTIVE == "generate_strategy_benchmark_active_perf_plt"

ActivePlotKwargs(in) ==
    [fontsize |-> in.fontsize, linewidth |-> "1.0", digits_to_show |-> 1,
     sharpe_digits |-> 2, weight |-> "normal", markersize |-> 1,
     framealpha |-> "0.75", time_period |-> in.time_period,
     perf_stats_labels |-> "DETAILED_WITH_DD"]

ActiveKwargs(in) == update_kwargs(in.kwargs, ActivePlotKwargs(in))

\* one cumulative Brinson component in the right column, labelled with its terminal value
ActiveComponentSteps(in, kwargs, p, row, title) ==
    <<CallOf(QIS, -1, "plot_time_series", p, Cells(row, row + 1, 1, 2),
             [df |-> [table |-> title, inst |-> 0], title |-> title,
              var_format |-> "{:.1%}", legend_labels |-> "column, sum=df[column].iloc[-1]"],
             kwargs, in.n),
      CallOf(MPD, -1, "add_regime_shadows", p, Cells(row, row + 1, 1, 2),
             [regime_benchmark |-> RegimeBenchmark, regime_params |-> in.regime_params],
             EmptyKwargs, in.n)>>

\* the zero floor set on the boxplot by groups only
ActiveBoxplotStepsGroupFloor(in, local_kwargs, p, row, is_grouped) ==
    <<CallOf(MPD, -1, "plot_weights_boxplot", p, Cells(row, row + 1, 0, 1),
             [strategy_idx |-> in.strategy_idx, benchmark_idx |-> in.benchmark_idx,
              freq |-> in.weight_freq, is_grouped |-> is_grouped,
              title |-> <<"Boxplot of weights at", in.weight_freq, "-freq">>],
             local_kwargs, in.n)>>
    \o (IF in.is_long_only /\ is_grouped
        THEN <<CallOf(QIS, -1, "set_y_limits", p, Cells(row, row + 1, 0, 1),
                      [y_limits |-> <<"0", None>>], EmptyKwargs, in.n)>>
        ELSE <<>>)

\* a weights boxplot in the left column, floored at zero for a long-only strategy
ActiveBoxplotSteps(in, local_kwargs, p, row, is_grouped) ==
    <<CallOf(MPD, -1, "plot_weights_boxplot", p, Cells(row, row + 1, 0, 1),
             [strategy_idx |-> in.strategy_idx, benchmark_idx |-> in.benchmark_idx,
              freq |-> in.weight_freq, is_grouped |-> is_grouped,
              title |-> <<IF is_grouped THEN "Boxplot of weights by groups at"
                          ELSE "Boxplot of weights by instruments at",
                          in.weight_freq, "-freq">>],
             local_kwargs, in.n)>>
    \o (IF in.is_long_only
        THEN <<CallOf(QIS, -1, "set_y_limits", p, Cells(row, row + 1, 0, 1),
                      [y_limits |-> <<"0", None>>], EmptyKwargs, in.n)>>
        ELSE <<>>)

\* the 3x2 page
ActiveSteps(in, kwargs, p) ==
    LET local_kwargs ==
            IF in.pcols > 9
            THEN update_kwargs(kwargs, [x_rotation |-> 90, add_hue_to_legend_title |-> FALSE])
            ELSE update_kwargs(kwargs, [add_hue_to_legend_title |-> FALSE])
    IN <<
       FigureStep("figure", p, "active_perf", 3, 2, 0),
       RegimeBenchmarkOf(in),
       CallOf(MPD, -1, "plot_nav", p, Cells(0, 1, 0, 1),
              [regime_benchmark |-> RegimeBenchmark, perf_params |-> in.perf_params,
               regime_params |-> in.regime_params, title |-> "Cumulative performance"],
              kwargs, in.n),
       CallOf(MPD, -1, "compute_brinson_attribution", 0, NoCells,
              [strategy_idx |-> in.strategy_idx, benchmark_idx |-> in.benchmark_idx,
               freq |-> None, time_period |-> in.time_period,
               is_exclude_interaction_term |-> TRUE],
              EmptyKwargs, in.n)
       >>
       \o ActiveComponentSteps(in, kwargs, p, 0, "Active total return (Brinson attribution)")
       \o ActiveComponentSteps(in, kwargs, p, 1, "Asset class allocation return")
       \o ActiveComponentSteps(in, kwargs, p, 2, "Instrument selection return")
       \o <<CallOf(PD, 0, "prices.columns", 0, NoCells, EmptyKwargs, EmptyKwargs, in.n)>>
       \o ActiveBoxplotSteps(in, local_kwargs, p, 1, TRUE)
       \o ActiveBoxplotSteps(in, local_kwargs, p, 2, FALSE)

ActiveFactsheetSteps(in, kwargs, p) ==
    FactsheetSteps(in,
                   [benchmark_prices |-> "benchmark_prices", perf_params |-> in.perf_params,
                    regime_params |-> in.regime_params,
                    add_grouped_exposures |-> in.add_grouped_exposures,
                    add_grouped_cum_pnl |-> in.add_grouped_cum_pnl],
                   kwargs, p, 0)
    \o <<CallOf(QIS, -1, "to_flat_list", 0, NoCells, EmptyKwargs, EmptyKwargs, in.n)>>

generate_strategy_benchmark_active_perf_plt(c, in) ==
    /\ call[c].status = "idle"
    /\ in.fn = ACTIVE
    /\ call' = [call EXCEPT ![c] =
                   IF PreconditionFails(in.n)
                   THEN Propagate(Entered(in), PreconditionError)
                   ELSE [Entered(in) EXCEPT !.pc = "active_perf",
                                            !.time_period = in.time_period,
                                            !.kwargs = ActiveKwargs(in)]]
    /\ data' = [data EXCEPT ![c] = DataOf(in)]
    /\ UNCHANGED <<pages, pyplot>>

ActivePage(c) ==
    /\ Running(c, ACTIVE, "active_perf")
    /\ LET cur == call[c] IN
       Exec(c, cur, ActiveSteps(cur.in, cur.kwargs, NextPage(c)),
            [pc |-> IF cur.in.add_strategy_factsheet THEN "strategy_factsheet" ELSE "return"])

ActiveFactsheetPages(c) ==
    /\ Running(c, ACTIVE, "strategy_factsheet")
    /\ LET cur == call[c] IN
       Exec(c, cur, ActiveFactsheetSteps(cur.in, cur.kwargs, NextPage(c)), [pc |-> "return"])

\* ------------------------------------------------------------------
\* generate_performance_attribution_report

ATTR == "generate_performance_attribution_report"

\* the first page: NAV and the P&L attribution of portfolios 0 and 1
AttributionSteps(in, p) ==
    LET attribution(ids, row) ==
            CallOf(MPD, -1, "plot_performance_attribution", p, Cells(row, row + 1, 0, 2),
                   [portfolio_ids |-> ids, time_period |-> in.time_period,
                    attribution_metric |-> "PNL"], in.kwargs, in.n)
    IN <<
       FigureStep("figure", p, "attribution", 3, 2, 0),
       CallOf(MPD, -1, "plot_nav", p, Cells(0, 1, 0, 2),
              [time_period |-> in.time_period], in.kwargs, in.n),
       attribution(<<0>>, 1),
       attribution(<<1>>, 2)
       >>

\* the second page: the periodic table at monthly frequency
AttributionTableSteps(in, p) ==
    <<
    FigureStep("subplots", p, "attribution_table", 1, 1, 0),
    CallOf(MPD, -1, "plot_performance_periodic_table", p, Cells(0, 1, 0, 1),
           [portfolio_ids |-> <<0>>, time_period |-> in.time_period,
            attribution_metric |-> "INST_PNL", freq |-> "ME"], in.kwargs, in.n)
    >>

generate_performance_attribution_report(c, in) ==
    /\ call[c].status = "idle"
    /\ in.fn = ATTR
    /\ Exec(c, [Entered(in) EXCEPT !.time_period = in.time_period],
            AttributionSteps(in, NextPage(c)), [pc |-> "attribution_table"])

AttributionTablePage(c) ==
    /\ Running(c, ATTR, "attribution_table")
    /\ LET cur == call[c] IN
       Exec(c, cur, AttributionTableSteps(cur.in, NextPage(c)), [pc |-> "return"])

\* ------------------------------------------------------------------
\* weights_tracking_error_report

WTE == "weights_tracking_error_report"

\* plot_exposures(exposures_short, exposures_long, axs, ...): a stack plot on
\* axs[0] and a boxplot by columns on axs[1]
plot_exposures(in, p, short, long, ylabel) ==
    <<CallOf(QIS, -1, "plot_stack", p, Cells(0, 1, 0, 1),
             [df |-> [table |-> short, inst |-> 0], use_bar_plot |-> TRUE,
              legend_stats |-> "AVG_NONNAN_LAST", var_format |-> in.var_format],
             update_kwargs(in.kwargs, [bbox_to_anchor |-> "(0.5, 1.01)", ncols |-> 1,
                                       framealpha |-> "0.9"]), in.n),
      CallOf(QIS, -1, "df_boxplot_by_columns", p, Cells(0, 1, 1, 2),
             [df |-> [table |-> long, inst |-> 0], hue_var_name |-> "asset class",
              ylabel |-> ylabel, yvar_format |-> in.var_format, x_rotation |-> 90,
              y_limits |-> <<"0.0", None>>],
             in.kwargs, in.n)>>

\* both weights pages stored under the key of the strategy's
WteWeightsStepsSameKey(in, p, idx, name) ==
    <<CreateStep("subplots", p, "strategy_weights", 1, 2),
      CallOf(PD, idx, "ticker", 0, NoCells, EmptyKwargs, EmptyKwargs, in.n),
      AssignStep(p, "strategy_weights")>>

\* the weights page of portfolio idx under the page name
WteWeightsSteps(in, p, idx, name) ==
    LET weights(scheme) ==
            CallOf(PD, idx, "get_weights", 0, NoCells,
                   [group_data |-> scheme, group_order |-> scheme, is_grouped |-> TRUE,
                    time_period |-> in.time_period, add_total |-> FALSE,
                    is_input_weights |-> TRUE], EmptyKwargs, in.n)
    IN <<weights("short"), weights("long"),
         CreateStep("subplots", p, name, 1, 2),
         CallOf(PD, idx, "ticker", 0, NoCells, EmptyKwargs, EmptyKwargs, in.n),
         CallOf(QIS, -1, "set_suptitle", p, NoCells, [title |-> "Weights"], EmptyKwargs, in.n),
         AssignStep(p, name)>>
       \o plot_exposures(in, p, "exposures_short", "exposures_long", "Weights")

\* the risk contributions page of portfolio idx: grouped short and long, and
\* the ungrouped table kept in dfs under key
WteRiskSteps(in, p, idx, name, key) ==
    LET rc(scheme) ==
            CallOf(PD, idx, "compute_risk_contributions_implied_by_covar", 0, NoCells,
                   [group_data |-> scheme, group_order |-> scheme,
                    covar_dict |-> "multi_portfolio_data.covar_dict", freq |-> "QE"],
                   EmptyKwargs, in.n)
        ungrouped ==
            CallOf(PD, idx, "compute_risk_contributions_implied_by_covar", 0, NoCells,
                   [covar_dict |-> "multi_portfolio_data.covar_dict", freq |-> "QE"],
                   EmptyKwargs, in.n)
        sum1(t) == CallOf(QIS, -1, "df_to_weight_allocation_sum1", 0, NoCells,
                          [df |-> [table |-> t, inst |-> 0]], EmptyKwargs, in.n)
    IN <<rc("short"), rc("long"), StoreAs(ungrouped, key),
         CreateStep("subplots", p, name, 1, 2),
         CallOf(PD, idx, "ticker", 0, NoCells, EmptyKwargs, EmptyKwargs, in.n),
         CallOf(QIS, -1, "set_suptitle", p, NoCells, [title |-> "Risk Contributions"],
                EmptyKwargs, in.n),
         AssignStep(p, name),
         sum1("risk_contributions_short"), sum1("risk_contributions_long")>>
       \o plot_exposures(in, p, "risk_contributions_short", "risk_contributions_long",
                         "Risk Contributions")

\* the nine named pages in the order of the function body
WteSteps(in, p) ==
    <<
    NamedFigureStep("subplots", p, "navs", 1, 1),
    CallOf(MPD, -1, "plot_nav", p, Cells(0, 1, 0, 1),
           [regime_benchmark |-> RegimeBenchmark, time_period |-> in.time_period,
            perf_params |-> in.perf_params, regime_params |-> in.regime_params,
            add_benchmarks_to_navs |-> in.add_benchmarks_to_navs,
            title |-> "Cumulative performance"], in.kwargs, in.n),
    NamedFigureStep("subplots", p + 1, "ra_table", 1, 1),
    StoreAs(CallOf(MPD, -1, "plot_ra_perf_table", p + 1, Cells(0, 1, 0, 1),
                   [benchmark_price |-> RegimeBenchmark,
                    add_benchmarks_to_navs |-> in.add_benchmarks_to_navs,
                    perf_params |-> in.perf_params, time_period |-> in.time_period,
                    add_turnover |-> TRUE], in.kwargs, in.n),
            "ra_perf_table")
    >>
    \o WteWeightsSteps(in, p + 2, in.strategy_idx, "strategy_weights")
    \o WteRiskSteps(in, p + 3, in.strategy_idx, "strategy_var", "strategy_risk_contributions")
    \o WteWeightsSteps(in, p + 4, in.benchmark_idx, "benchmark_weights")
    \o WteRiskSteps(in, p + 5, in.benchmark_idx, "benchmark_var", "benchmark_risk_contributions")
    \o <<
    NamedFigureStep("subplots", p + 6, "turnover", 1, 1),
    CallOf(MPD, -1, "plot_turnover", p + 6, Cells(0, 1, 0, 1),
           [time_period |-> in.time_period], in.kwargs, in.n),
    NamedFigureStep("subplots", p + 7, "tre_time_series", 1, 1),
    CallOf(MPD, -1, "plot_tre_time_series", p + 7, Cells(0, 1, 0, 1),
           [strategy_idx |-> in.strategy_idx, benchmark_idx |-> in.benchmark_idx,
            time_period |-> in.time_period], in.kwargs, in.n),
    NamedFigureStep("subplots", p + 8, "brinson", 1, 2),
    CallOf(MPD, -1, "plot_brinson_attribution", p + 8, Cells(0, 1, 0, 2),
           [strategy_idx |-> in.strategy_idx, benchmark_idx |-> in.benchmark_idx,
            time_period |-> in.time_period, freq |-> None,
            axs |-> <<<<0, 0>>, <<0, 1>>>>, total_column |-> "Total Sum",
            is_exclude_interaction_term |-> TRUE], in.kwargs, in.n)
    >>

\* a dict built by assignments key by key: a later assignment to a key replaces
\* the earlier one
DictOf(keys, values) ==
    [k \in {keys[j] : j \in 1 .. Len(keys)} |->
        values[CHOOSE j \in 1 .. Len(keys) :
                   keys[j] = k /\ \A j2 \in 1 .. Len(keys) : keys[j2] = k => j2 <= j]]

\* what "return figs, dfs" hands back: page by name, table by name
PairResult(cur) ==
    [kind |-> "pair",
     pages |-> DictOf([j \in 1 .. Len(cur.figs) |-> cur.figs[j].name],
                      [j \in 1 .. Len(cur.figs) |-> cur.figs[j].figs[1]]),
     tables |-> DictOf([j \in 1 .. Len(cur.dfs) |-> cur.dfs[j][1]],
                       [j \in 1 .. Len(cur.dfs) |-> cur.dfs[j][2]])]

weights_tracking_error_report(c, in) ==
    /\ call[c].status = "idle"
    /\ in.fn = WTE
    /\ Exec(c, [Entered(in) EXCEPT !.time_period = in.time_period],
            <<RegimeBenchmarkOf(in)>>, [pc |-> "pages"])

WtePages(c) ==
    /\ Running(c, WTE, "pages")
    /\ LET cur == call[c] IN
       Exec(c, cur, WteSteps(cur.in, NextPage(c)), [pc |-> "return_pair"])

\* return figs, dfs
ReturnFigsDfs(c) ==
    /\ call[c].status = "running"
    /\ call[c].pc = "return_pair"
    /\ call' = [call EXCEPT ![c] =
                   [call[c] EXCEPT !.status = "returned", !.pc = "returned",
                                   !.result = PairResult(call[c])]]
    /\ UNCHANGED <<pages, pyplot, data>>

\* ------------------------------------------------------------------
\* generate_multi_portfolio_factsheet

MULTI == "generate_multi_portfolio_factsheet"

MultiPlotKwargs ==
    [fontsize |-> 5, linewidth |-> "0.5", digits_to_show |-> 1, sharpe_digits |-> 2,
     weight |-> "normal", markersize |-> 1, framealpha |-> "0.75"]

MultiKwargs(in) == update_kwargs(in.kwargs, MultiPlotKwargs)

\* the single page: a 7x4 grid and its panels
MultiSteps(in, kwargs, p) ==
    LET n == in.n
        tp == in.time_period
        rp == in.regime_params
        pp == in.perf_params
        series == [time_period |-> tp, benchmark |-> RegimeBenchmark, regime_params |-> rp]
        font5 == update_kwargs(kwargs, [fontsize |-> 5])
    IN <<
    FigureStep("figure", p, "multi", 7, 4, 0),
    CallOf(MPD, -1, "plot_nav", p, Cells(0, 1, 0, 2),
           [time_period |-> tp, benchmark |-> RegimeBenchmark, perf_params |-> pp,
            regime_params |-> rp, title |-> "Cumulative performance"], kwargs, n),
    CallOf(MPD, -1, "plot_drawdowns", p, Cells(1, 2, 0, 2),
           [time_period |-> tp, benchmark |-> RegimeBenchmark, regime_params |-> rp,
            title |-> "Running Drawdowns"], kwargs, n),
    CallOf(MPD, -1, "plot_rolling_time_under_water", p, Cells(2, 3, 0, 2),
           [time_period |-> tp, benchmark |-> RegimeBenchmark, regime_params |-> rp,
            title |-> "Rolling time under water"], kwargs, n),
    CallOf(MPD, -1, "plot_exposures", p, Cells(3, 4, 0, 2),
           [portfolio_idx |-> 0, time_period |-> tp, benchmark |-> RegimeBenchmark,
            regime_params |-> rp], kwargs, n),
    CallOf(MPD, -1, "plot_turnover", p, Cells(4, 5, 0, 2), series, kwargs, n),
    CallOf(MPD, -1, "plot_costs", p, Cells(5, 6, 0, 2), series, kwargs, n),
    CallOf(MPD, -1, "plot_factor_betas", p, Cells(6, 7, 0, 2),
           [benchmark_prices |-> "benchmark_prices", time_period |-> tp,
            benchmark |-> RegimeBenchmark, regime_params |-> rp], kwargs, n),
    CallOf(MPD, -1, "plot_performance_bars", p, Cells(0, 1, 2, 3),
           [perf_params |-> pp, perf_column |-> "SHARPE", time_period |-> tp], font5, n),
    CallOf(MPD, -1, "plot_performance_bars", p, Cells(0, 1, 3, 4),
           [perf_params |-> pp, perf_column |-> "MAX_DD", time_period |-> tp], font5, n),
    CallOf(MPD, -1, "plot_periodic_returns", p, Cells(1, 2, 2, 4),
           [heatmap_freq |-> "A", time_period |-> tp],
           update_kwargs(kwargs, [date_format |-> "%Y", fontsize |-> 5]), n),
    CallOf(MPD, -1, "plot_ra_perf_table", p, Cells(2, 3, 2, 4),
           [perf_params |-> pp, time_period |-> tp], font5, n),
    CallOf(QIS, -1, "get_time_period_shifted_by_years", 0, NoCells,
           [time_period |-> tp], EmptyKwargs, n),
    CallOf(MPD, -1, "plot_ra_perf_table", p, Cells(3, 4, 2, 4),
           [perf_params |-> pp, time_period |-> get_time_period_shifted_by_years(tp, 1)],
           font5, n),
    CallOf(MPD, -1, "plot_regime_data", p, Cells(4, 5, 2, 4),
           [is_grouped |-> FALSE, time_period |-> tp, perf_params |-> pp,
            regime_params |-> rp, benchmark |-> RegimeBenchmark], kwargs, n),
    CallOf(MPD, -1, "plot_returns_scatter", p, Cells(5, 6, 2, 4),
           [time_period |-> tp, benchmark |-> RegimeBenchmark], kwargs, n),
    CallOf(MPD, -1, "plot_corr_table", p, Cells(6, 7, 2, 4),
           [time_period |-> tp, freq |-> "W-WED"],
           update_kwargs(kwargs, [fontsize |-> 4]), n)
    >>

\* what "return fig" hands back: the page itself
FigureResult(cur) == [kind |-> "figure", pages |-> cur.figs, tables |-> <<>>]

generate_multi_portfolio_factsheet(c, in) ==
    /\ call[c].status = "idle"
    /\ in.fn = MULTI
    /\ Exec(c, [Entered(in) EXCEPT !.time_period = in.time_period],
            <<RegimeBenchmarkOf(in)>>, [pc |-> "page", kwargs |-> MultiKwargs(in)])

MultiPage(c) ==
    /\ Running(c, MULTI, "page")
    /\ LET cur == call[c] IN
       Exec(c, cur, MultiSteps(cur.in, cur.kwargs, NextPage(c)), [pc |-> "return_fig"])

\* return fig
ReturnFig(c) ==
    /\ call[c].status = "running"
    /\ call[c].pc = "return_fig"
    /\ call' = [call EXCEPT ![c] =
                   [call[c] EXCEPT !.status = "returned", !.pc = "returned",
                                   !.result = FigureResult(call[c])]]
    /\ UNCHANGED <<pages, pyplot, data>>

\* ------------------------------------------------------------------ inputs

\* the defaults of the signature, on data of two portfolios
SbfDefaults ==
    [fn |-> SBF, n |-> 2, wcols |-> GroupedThreshold - 1, bcols |-> 1, bfreq |-> "B",
     ninst |-> 1, ngroups |-> 1,
     strategy_idx |-> 0, benchmark_idx |-> 1, time_period |-> NoTimePeriod,
     perf_params |-> PERF_PARAMS, regime_params |-> REGIME_PARAMS,
     add_benchmarks_to_navs |-> FALSE, add_brinson_attribution |-> TRUE,
     add_exposures_pnl_attribution |-> FALSE, add_strategy_factsheet |-> FALSE,
     add_grouped_exposures |-> FALSE, add_grouped_cum_pnl |-> FALSE,
     add_tracking_error_table |-> FALSE, add_exposures_comp |-> FALSE,
     is_grouped |-> None, fontsize |-> 4, kwargs |-> EmptyKwargs,
     weight_freq |-> "ME", is_long_only |-> FALSE, pcols |-> GroupedThreshold - 1,
     var_format |-> "{:.1%}"]

CallerKwargs ==
    {EmptyKwargs, [linewidth |-> "2.0"], [framealpha |-> "0.5", freq_reg |-> "QE"]}

TimePeriods == {NoTimePeriod, GivenTimePeriod}

IndexPairs == {<<0, 1>>, <<1, 0>>}

\* section toggles against the number of portfolios, instruments and groups
SbfSectionInputs ==
    {[SbfDefaults EXCEPT !.n = n, !.add_brinson_attribution = t[1],
                         !.add_tracking_error_table = t[2], !.add_exposures_comp = t[3],
                         !.add_exposures_pnl_attribution = t[4],
                         !.add_strategy_factsheet = t[5],
                         !.ninst = IF t[3] THEN ni ELSE 1,
                         !.ngroups = IF t[4] THEN ng ELSE 1] :
        n \in 0 .. MaxPortfolios, t \in [1 .. 5 -> BOOLEAN],
        ni \in 0 .. MaxInstruments, ng \in 1 .. MaxGroups}

\* strategy_idx and benchmark_idx against the number of portfolios
SbfIndexInputs ==
    {[SbfDefaults EXCEPT !.n = n, !.add_tracking_error_table = TRUE,
                         !.add_exposures_pnl_attribution = TRUE,
                         !.strategy_idx = ix[1], !.benchmark_idx = ix[2]] :
        n \in 0 .. MaxPortfolios, ix \in IndexPairs}

\* the grouping override against the number of weight columns
SbfGroupingInputs ==
    {[SbfDefaults EXCEPT !.n = n, !.is_grouped = g, !.wcols = w, !.time_period = tp,
                         !.add_strategy_factsheet = sf] :
        n \in {0, 2}, g \in {None, "True", "False"},
        w \in (GroupedThreshold - 1) .. (GroupedThreshold + 1),
        tp \in TimePeriods, sf \in BOOLEAN}

\* the configuration: caller kwargs, window, benchmark frequency, parameters
SbfConfigInputs ==
    {[SbfDefaults EXCEPT !.bfreq = f, !.kwargs = kw, !.time_period = tp,
                         !.add_benchmarks_to_navs = navs, !.perf_params = pp,
                         !.bcols = bc] :
        f \in {"B", "D", "W-WED", None}, kw \in CallerKwargs, tp \in TimePeriods,
        navs \in BOOLEAN, pp \in {PERF_PARAMS, [freq |-> "ME", freq_reg |-> "QE"]},
        bc \in {0, 1}}

SbfInputs ==
    SbfSectionInputs \cup SbfIndexInputs \cup SbfGroupingInputs \cup SbfConfigInputs

ActiveInputs ==
    {[SbfDefaults EXCEPT !.fn = ACTIVE, !.fontsize = 8, !.n = n,
                         !.add_strategy_factsheet = sf, !.is_long_only = lo,
                         !.time_period = tp, !.kwargs = kw, !.pcols = pc,
                         !.weight_freq = wf] :
        n \in 0 .. MaxPortfolios, sf \in BOOLEAN, lo \in BOOLEAN, tp \in TimePeriods,
        kw \in CallerKwargs, pc \in {9, 10}, wf \in {"ME", "QE"}}

AttributionInputs ==
    {[SbfDefaults EXCEPT !.fn = ATTR, !.n = n, !.time_period = tp, !.kwargs = kw] :
        n \in 0 .. MaxPortfolios, tp \in TimePeriods, kw \in CallerKwargs}

WteInputs ==
    {[SbfDefaults EXCEPT !.fn = WTE, !.add_benchmarks_to_navs = TRUE, !.n = n,
                         !.strategy_idx = ix[1], !.benchmark_idx = ix[2],
                         !.time_period = tp, !.kwargs = kw, !.bcols = bc] :
        n \in 0 .. MaxPortfolios, ix \in IndexPairs, tp \in TimePeriods,
        kw \in CallerKwargs \cup {[freq |-> "ME"]}, bc \in {0, 1}}

MultiInputs ==
    {[SbfDefaults EXCEPT !.fn = MULTI, !.n = n, !.time_period = tp, !.kwargs = kw,
                         !.bcols = bc] :
        n \in 1 .. MaxPortfolios, tp \in TimePeriods, kw \in CallerKwargs, bc \in {0, 1}}

\* ------------------------------------------------------------------ specification

Init ==
    /\ call = [c \in Callers |-> IdleCall]
    /\ pages = [c \in Callers |-> <<>>]
    /\ pyplot = {}
    /\ data = [c \in Callers |-> NoData]

\* the sections of a running call and its return
Step(c) ==
    \/ SbfPrimaryPage(c)
    \/ SbfBrinsonPage(c)
    \/ SbfTrackingErrorPage(c)
    \/ SbfExposuresCompPages(c)
    \/ SbfExposuresPnlPage(c)
    \/ SbfFactsheetPages(c)
    \/ ActivePage(c)
    \/ ActiveFactsheetPages(c)
    \/ AttributionTablePage(c)
    \/ WtePages(c)
    \/ MultiPage(c)
    \/ ReturnFigs(c)
    \/ ReturnFigsDfs(c)
    \/ ReturnFig(c)

\* one call of one entry point, on any of the inputs
Next ==
    \/ \E in \in SbfInputs : generate_strategy_benchmark_factsheet_plt("c1", in)
    \/ \E in \in ActiveInputs : generate_strategy_benchmark_active_perf_plt("c1", in)
    \/ \E in \in AttributionInputs : generate_performance_attribution_report("c1", in)
    \/ \E in \in WteInputs : weights_tracking_error_report("c1", in)
    \/ \E in \in MultiInputs : generate_multi_portfolio_factsheet("c1", in)
    \/ Step("c1")

Spec == Init /\ [][Next]_vars

\* two callers, each making one call, their sections interleaved in any order
PairSbfInputs ==
    {SbfDefaults} \cup
    {[SbfDefaults EXCEPT !.add_tracking_error_table = TRUE, !.add_exposures_comp = TRUE,
                         !.add_exposures_pnl_attribution = TRUE,
                         !.add_strategy_factsheet = TRUE,
                         !.strategy_idx = ix[1], !.benchmark_idx = ix[2]] :
        ix \in IndexPairs}

PairActiveInputs == {[SbfDefaults EXCEPT !.fn = ACTIVE, !.add_strategy_factsheet = TRUE]}
PairAttributionInputs == {[SbfDefaults EXCEPT !.fn = ATTR]}
PairWteInputs == {[SbfDefaults EXCEPT !.fn = WTE]}
PairMultiInputs == {[SbfDefaults EXCEPT !.fn = MULTI]}

NextPair ==
    \E c \in Callers :
        \/ \E in \in PairSbfInputs : generate_strategy_benchmark_factsheet_plt(c, in)
        \/ \E in \in PairActiveInputs : generate_strategy_benchmark_active_perf_plt(c, in)
        \/ \E in \in PairAttributionInputs : generate_performance_attribution_report(c, in)
        \/ \E in \in PairWteInputs : weights_tracking_error_report(c, in)
        \/ \E in \in PairMultiInputs : generate_multi_portfolio_factsheet(c, in)
        \/ Step(c)

SpecPair == Init /\ [][NextPair]_vars

\* ------------------------------------------------------------------ properties

Started(c) == call[c].status # "idle"
Returned(c, fn) == call[c].status = "returned" /\ call[c].in.fn = fn
Raised(c) == call[c].status = "raised"
LogOf(c) == call[c].log
Entries(c, m) == {j \in 1 .. Len(LogOf(c)) : LogOf(c)[j].m = m}

\* C1: generate_strategy_benchmark_factsheet_plt and
\* generate_strategy_benchmark_active_perf_plt, invoked with exactly one
\* portfolio, raise the precondition error with no page created and no
\* collaborator called; invoked with two or more they never raise it.
C1_OnePortfolioRaises ==
    \A c \in Callers :
        (Started(c) /\ call[c].in.fn \in {SBF, ACTIVE}) =>
            /\ call[c].in.n = 1 =>
                   /\ Raised(c)
                   /\ call[c].err = <<"ValueError", "must be at least two strategies">>
                   /\ pages[c] = <<>>
                   /\ LogOf(c) = <<>>
            /\ call[c].in.n >= 2 =>
                   call[c].err # <<"ValueError", "must be at least two strategies">>

C1_Witness ==
    /\ call["c1"].in.fn = ACTIVE
    /\ call["c1"].in.n = 1
    /\ Raised("c1")

\* C2: for every input with fewer than two portfolios (zero as well as one)
\* both comparison factsheets fail with the precondition error before any
\* page is created.
C2_FewerThanTwoRaises ==
    \A c \in Callers :
        (Started(c) /\ call[c].in.fn \in {SBF, ACTIVE} /\ call[c].in.n < 2) =>
            /\ Raised(c)
            /\ call[c].err = <<"ValueError", "must be at least two strategies">>
            /\ pages[c] = <<>>

\* C3: the page count of generate_strategy_benchmark_factsheet_plt is the
\* count the other inputs give, plus one if add_brinson_attribution, plus one
\* per portfolio if add_strategy_factsheet.
OtherPages(in) ==
    1 + (IF in.add_tracking_error_table THEN 1 ELSE 0)
      + (IF in.add_exposures_comp THEN in.ninst ELSE 0)
      + (IF in.add_exposures_pnl_attribution THEN 1 ELSE 0)

C3_PageCountFollowsToggles ==
    \A c \in Callers :
        Returned(c, SBF) =>
            Len(call[c].result.pages) =
                OtherPages(call[c].in)
                    + (IF call[c].in.add_brinson_attribution THEN 1 ELSE 0)
                    + (IF call[c].in.add_strategy_factsheet THEN call[c].in.n ELSE 0)

C3_Witness ==
    /\ Returned("c1", SBF)
    /\ call["c1"].in.add_brinson_attribution
    /\ call["c1"].in.add_strategy_factsheet
    /\ call["c1"].in.n = 3
    /\ Len(call["c1"].result.pages) = 5

StyleKeys == {"linewidth", "framealpha", "digits_to_show"}

\* C4: a style option the caller supplies in the open-ended options reaches
\* every panel that receives it with the caller's value.
C4_CallerOptionsReachPanels ==
    \A c \in Callers :
        Started(c) =>
            \A j \in 1 .. Len(LogOf(c)) :
                \A k \in StyleKeys \cap (DOMAIN call[c].in.kwargs) :
                    (LogOf(c)[j].cells # {} /\ k \in DOMAIN LogOf(c)[j].args) =>
                        LogOf(c)[j].args[k] = call[c].in.kwargs[k]

\* C5: with is_grouped unset the grouped mode is the one selected exactly
\* when portfolio_datas[0] has ten or more weight columns; an explicit
\* is_grouped is used unchanged and the weights are not read.
GroupedExpected(in) ==
    IF in.is_grouped = None THEN in.wcols >= 10 ELSE in.is_grouped = "True"

C5_GroupedModeSelection ==
    \A c \in Callers :
        (Started(c) /\ call[c].in.fn = SBF) =>
            /\ \A j \in Entries(c, "plot_ac_ra_perf_table") \cup Entries(c, "plot_periodic_returns") :
                   LogOf(c)[j].args.is_grouped = GroupedExpected(call[c].in)
            /\ call[c].pc \notin {"entry", "raised"} =>
                   call[c].is_grouped = GroupedExpected(call[c].in)
            /\ call[c].in.is_grouped # None => Entries(c, "get_weights") = {}
            /\ (call[c].in.is_grouped = None /\ LogOf(c) # <<>>) =>
                   /\ LogOf(c)[1].m = "get_weights"
                   /\ LogOf(c)[1].idx = 0

C5_Witness ==
    /\ Returned("c1", SBF)
    /\ call["c1"].in.is_grouped = None
    /\ call["c1"].in.wcols = 10
    /\ \E j \in Entries("c1", "plot_ac_ra_perf_table") : LogOf("c1")[j].args.is_grouped

\* C6 as stated: with a daily or business-daily regime benchmark the
\* factor-beta panel is invoked with freq_reg 'W-WED' and alpha_an_factor 52.
C6_FactorBetasWeekly ==
    \A c \in Callers :
        (Started(c) /\ call[c].in.fn = SBF /\ call[c].in.bfreq \in {"B", "D"}) =>
            \A j \in Entries(c, "plot_factor_betas") :
                /\ "freq_reg" \in DOMAIN LogOf(c)[j].args
                /\ LogOf(c)[j].args.freq_reg = "W-WED"
                /\ "alpha_an_factor" \in DOMAIN LogOf(c)[j].args
                /\ LogOf(c)[j].args.alpha_an_factor = 52

IsSecondTable(e) == e.m = "plot_ac_ra_perf_table" /\ <<2, 2>> \in e.cells

CallerFreqReg(e, in) ==
    /\ "alpha_an_factor" \notin DOMAIN e.args
    /\ ("freq_reg" \in DOMAIN e.args) = ("freq_reg" \in DOMAIN in.kwargs)
    /\ "freq_reg" \in DOMAIN e.args => e.args.freq_reg = in.kwargs.freq_reg

\* C6: with a daily or business-daily regime benchmark it is the second
\* performance table (the one over the last year) that is invoked with
\* freq_reg 'W-WED' and alpha_an_factor 52; for any other inferred frequency
\* that table gets no such override and perf_params unchanged; the first
\* table and the factor-beta panel never get the override.
C6_SecondTableWeekly ==
    \A c \in Callers :
        (Started(c) /\ call[c].in.fn = SBF) =>
            \A j \in 1 .. Len(LogOf(c)) :
                LET e == LogOf(c)[j] IN
                /\ IsSecondTable(e) =>
                       /\ e.args.perf_params = call[c].in.perf_params
                       /\ IF call[c].in.bfreq \in {"B", "D"}
                          THEN /\ "freq_reg" \in DOMAIN e.args
                               /\ e.args.freq_reg = "W-WED"
                               /\ "alpha_an_factor" \in DOMAIN e.args
                               /\ e.args.alpha_an_factor = 52
                          ELSE CallerFreqReg(e, call[c].in)
                /\ (e.m = "plot_factor_betas"
                        \/ (e.m = "plot_ac_ra_perf_table" /\ ~IsSecondTable(e))) =>
                       CallerFreqReg(e, call[c].in)

C6_Witness ==
    /\ Returned("c1", SBF)
    /\ call["c1"].in.bfreq = "B"
    /\ \E j \in Entries("c1", "plot_ac_ra_perf_table") :
           /\ IsSecondTable(LogOf("c1")[j])
           /\ LogOf("c1")[j].args.freq_reg = "W-WED"
    /\ Entries("c1", "plot_factor_betas") # {}

\* C7: the returned list has the primary page first, then the enabled
\* optional pages in the order Brinson, tracking error, exposure comparison
\* per instrument, exposure and P&L attribution, sub-factsheet per portfolio;
\* two portfolios and default toggles give primary then Brinson.
PageOrder ==
    <<"primary", "brinson", "tracking_error", "exposures_comp", "exposures_pnl",
      "strategy_factsheet">>

Rank(kind) == CHOOSE j \in 1 .. Len(PageOrder) : PageOrder[j] = kind

ReturnedPages(c) ==
    [j \in 1 .. Len(call[c].result.pages) |-> pages[c][call[c].result.pages[j].figs[1]]]

Toggle(in, kind) ==
    CASE kind = "primary" -> TRUE
      [] kind = "brinson" -> in.add_brinson_attribution
      [] kind = "tracking_error" -> in.add_tracking_error_table
      [] kind = "exposures_comp" -> in.add_exposures_comp /\ in.ninst > 0
      [] kind = "exposures_pnl" -> in.add_exposures_pnl_attribution
      [] kind = "strategy_factsheet" -> in.add_strategy_factsheet

C7_PageOrder ==
    \A c \in Callers :
        Returned(c, SBF) =>
            LET ps == ReturnedPages(c) IN
            /\ Len(ps) >= 1
            /\ ps[1].kind = "primary"
            /\ \A i \in 1 .. Len(ps) : \A j \in (i + 1) .. Len(ps) :
                   \/ Rank(ps[i].kind) < Rank(ps[j].kind)
                   \/ /\ ps[i].kind = ps[j].kind
                      /\ ps[i].kind \in {"exposures_comp", "strategy_factsheet"}
                      /\ ps[i].of < ps[j].of
            /\ \A j \in 1 .. Len(PageOrder) :
                   (\E i \in 1 .. Len(ps) : ps[i].kind = PageOrder[j])
                       = Toggle(call[c].in, PageOrder[j])
            /\ (call[c].in.n = 2 /\ call[c].in.add_brinson_attribution) => Len(ps) >= 2
            /\ call[c].in = SbfDefaults =>
                   [j \in 1 .. Len(ps) |-> ps[j].kind] = <<"primary", "brinson">>

C7_Witness ==
    /\ Returned("c1", SBF)
    /\ [j \in 1 .. Len(ReturnedPages("c1")) |-> ReturnedPages("c1")[j].kind]
           = <<"primary", "brinson", "tracking_error", "exposures_comp", "exposures_comp",
               "exposures_pnl", "strategy_factsheet", "strategy_factsheet">>

\* C8: an entry point in which a collaborator call raised has raised that
\* error itself and has returned nothing; it never resumes; an entry point
\* that returned met no error.
NoPartialResult ==
    \A c \in Callers :
        /\ call[c].err # NoError => (Raised(c) /\ call[c].result = NoResult)
        /\ Raised(c) => (call[c].err # NoError /\ call[c].result = NoResult)
        /\ call[c].status = "returned" => (call[c].err = NoError /\ call[c].result # NoResult)
        /\ (Raised(c) /\ call[c].err[1] = "CollaboratorError") =>
               /\ LogOf(c) # <<>>
               /\ LogOf(c)[Len(LogOf(c))].m = call[c].err[2]

C8_NoPartialSuccess ==
    /\ []NoPartialResult
    /\ [][\A c \in Callers : Raised(c) => call'[c] = call[c]]_vars

C8_Witness ==
    /\ Raised("c1")
    /\ call["c1"].in.fn = MULTI
    /\ call["c1"].err = <<"CollaboratorError", "plot_factor_betas">>
    /\ Len(pages["c1"]) = 1
    /\ call["c1"].figs # <<>>

\* C9: under any interleaving or sequence of two calls, a step of one call
\* never closes a page the other caller created.
C9_NoForeignPageClosed ==
    [][\A c \in Callers : \A d \in Callers \ {c} :
           call'[c] # call[c] =>
               \A i \in 1 .. Len(pages[d]) :
                   <<d, i>> \in pyplot => <<d, i>> \in pyplot']_vars

WtePageNames ==
    {"navs", "ra_table", "strategy_weights", "strategy_var", "benchmark_weights",
     "benchmark_var", "turnover", "tre_time_series", "brinson"}

\* C10 as stated: the pages are the nine named pages and the tables are a
\* parallel mapping, one table under each page name.
C10_ParallelTables ==
    \A c \in Callers :
        Returned(c, WTE) =>
            /\ DOMAIN call[c].result.pages = WtePageNames
            /\ DOMAIN call[c].result.tables = DOMAIN call[c].result.pages

\* C10: the pages are exactly the nine named pages, each a page of its own;
\* the tables are exactly three, under names of their own: ra_perf_table,
\* strategy_risk_contributions and benchmark_risk_contributions.
C10_NinePagesThreeTables ==
    \A c \in Callers :
        Returned(c, WTE) =>
            LET r == call[c].result IN
            /\ r.kind = "pair"
            /\ DOMAIN r.pages = WtePageNames
            /\ \A a \in WtePageNames : \A b \in WtePageNames \ {a} : r.pages[a] # r.pages[b]
            /\ \A a \in WtePageNames : pages[c][r.pages[a]].kind = a
            /\ DOMAIN r.tables = {"ra_perf_table", "strategy_risk_contributions",
                                  "benchmark_risk_contributions"}

C10_Witness ==
    /\ Returned("c1", WTE)
    /\ Cardinality(DOMAIN call["c1"].result.pages) = 9
    /\ Cardinality(DOMAIN call["c1"].result.tables) = 3

\* C11 as stated: weights_tracking_error_report and
\* generate_performance_attribution_report, invoked with exactly one
\* portfolio, raise the precondition error before creating any page.
C11_OnePortfolioRaises ==
    \A c \in Callers :
        (Started(c) /\ call[c].in.fn \in {WTE, ATTR} /\ call[c].in.n = 1) =>
            /\ Raised(c)
            /\ call[c].err[1] = "ValueError"
            /\ pages[c] = <<>>

\* C12: the data of the multi_portfolio_data a caller passed in
\* (portfolio_datas, benchmark_prices, covar_dict) is, at every point of the
\* call and after it, returned or raised, what it was when the call was made;
\* no step of a call changes it.
InputDataKept ==
    \A c \in Callers : Started(c) => data[c] = DataOf(call[c].in)

C12_InputDataUnchanged ==
    /\ []InputDataKept
    /\ [][\A c \in Callers : Started(c) => data'[c] = data[c]]_vars

C12_Witness ==
    /\ Returned("c1", WTE)
    /\ data["c1"] = [portfolio_datas |-> 2, benchmark_prices |-> 1, covar_dict |-> 1]
    /\ \E j \in Entries("c1", "compute_risk_contributions_implied_by_covar") :
           LogOf("c1")[j].args.covar_dict = "multi_portfolio_data.covar_dict"

\* the reporting window of a comparison factsheet call: the caller's, or the
\* extent of the NAV of portfolio_datas[0]
Window(in) == IF in.time_period = <<>> THEN <<2018, 2024>> ELSE in.time_period

\* a panel or sub-factsheet call, as opposed to a decoration of drawn axes
IsPanel(e) ==
    \/ e.cells # {} /\ e.m \notin {"add_regime_shadows", "set_spines"}
    \/ e.m = GSF

\* C13 as stated: the window, derived from the NAV of portfolio_datas[0] when
\* none is supplied, is the one every panel and sub-factsheet receives.
C13_WindowToEveryPanel ==
    \A c \in Callers :
        (Started(c) /\ call[c].in.fn = SBF) =>
            \A j \in 1 .. Len(LogOf(c)) :
                IsPanel(LogOf(c)[j]) =>
                    /\ "time_period" \in DOMAIN LogOf(c)[j].args
                    /\ LogOf(c)[j].args.time_period = Window(call[c].in)

\* C13: the window, derived from the NAV of portfolio_datas[0] when none is
\* supplied and the caller's otherwise, is the one every panel and
\* sub-factsheet receives, except the second performance table, which
\* receives the last year of that window; the NAV is read only when no window
\* is supplied.
C13_WindowToPanels ==
    \A c \in Callers :
        (Started(c) /\ call[c].in.fn = SBF) =>
            LET w == Window(call[c].in) IN
            /\ call[c].pc \notin {"entry", "raised"} => call[c].time_period = w
            /\ (Entries(c, "get_portfolio_nav") # {}) =>
                   call[c].in.time_period = <<>>
            /\ \A j \in Entries(c, "get_portfolio_nav") : LogOf(c)[j].idx = 0
            /\ \A j \in 1 .. Len(LogOf(c)) :
                   LET e == LogOf(c)[j] IN
                   /\ IsPanel(e) => "time_period" \in DOMAIN e.args
                   /\ "time_period" \in DOMAIN e.args =>
                          e.args.time_period =
                              IF IsSecondTable(e) THEN <<w[2] - 1, w[2]>> ELSE w

C13_Witness ==
    /\ Returned("c1", SBF)
    /\ call["c1"].in.time_period = <<>>
    /\ call["c1"].in.add_strategy_factsheet
    /\ \E j \in Entries("c1", GSF) : LogOf("c1")[j].args.time_period = <<2018, 2024>>
    /\ \E j \in Entries("c1", "plot_ac_ra_perf_table") :
           LogOf("c1")[j].args.time_period = <<2023, 2024>>

\* C14 as stated: in generate_multi_portfolio_factsheet,
\* generate_strategy_benchmark_active_perf_plt,
\* generate_performance_attribution_report and weights_tracking_error_report
\* a call without a reporting window hands its panels (the one-year-shifted
\* table and the Brinson computation included) a derived window, never an
\* absent one.
C14_WindowNeverAbsent ==
    \A c \in Callers :
        (Started(c) /\ call[c].in.fn \in {MULTI, ACTIVE, ATTR, WTE}
                    /\ call[c].in.time_period = <<>>) =>
            \A j \in 1 .. Len(LogOf(c)) :
                "time_period" \in DOMAIN LogOf(c)[j].args =>
                    LogOf(c)[j].args.time_period # <<>>

\* C15: generate_multi_portfolio_factsheet, given benchmark prices without
\* columns, fails on the lookup of the first benchmark column, before it
\* creates the page and before any collaborator call; with at least one
\* column that lookup does not fail.
C15_NoBenchmarkColumnsFails ==
    \A c \in Callers :
        (Started(c) /\ call[c].in.fn = MULTI) =>
            /\ call[c].in.bcols = 0 =>
                   /\ Raised(c)
                   /\ call[c].err = <<"IndexError", "benchmark_prices.columns[0]">>
                   /\ pages[c] = <<>>
                   /\ LogOf(c) = <<>>
                   /\ \A f \in pyplot : f[1] # c
            /\ call[c].in.bcols > 0 =>
                   call[c].err # <<"IndexError", "benchmark_prices.columns[0]">>

C15_Witness ==
    /\ Raised("c1")
    /\ call["c1"].in.fn = MULTI
    /\ call["c1"].in.bcols = 0
    /\ call["c1"].in.n = 2

\* the cells of rows r0..r1 and columns c0..c1 of a grid
Block(r0, r1, c0, c1) == (r0 .. r1) \X (c0 .. c1)

\* the panels drawn on page i of caller c, in the order of their calls: the
\* method and the cells of the axes it was given
PanelsOn(c, i) ==
    LET OnPage(e) == e.page = i /\ e.cells # {}
        drawn == SelectSeq(LogOf(c), OnPage)
    IN [j \in 1 .. Len(drawn) |-> <<drawn[j].m, drawn[j].cells>>]

\* every cell of the nrows x ncols grid lies in exactly one of the panels
Tiles(panels, nrows, ncols) ==
    /\ \A i \in 1 .. Len(panels) : \A j \in (i + 1) .. Len(panels) :
           panels[i][2] \cap panels[j][2] = {}
    /\ UNION {panels[j][2] : j \in 1 .. Len(panels)} = Block(0, nrows - 1, 0, ncols - 1)

\* C16: generate_multi_portfolio_factsheet returns exactly one page, on a 7x4
\* grid of which every cell belongs to exactly one panel: seven one-row
\* panels in the left two columns (cumulative performance, drawdowns, time
\* under water, exposures, turnover, costs, factor betas), two single-cell
\* performance bars in row 0 of the right columns and six two-column panels
\* below them (periodic returns, performance table, shifted performance
\* table, regime data, returns scatter, correlation table).
C16_MultiPageLayout ==
    \A c \in Callers :
        Returned(c, MULTI) =>
            /\ call[c].result.kind = "figure"
            /\ Len(call[c].result.pages) = 1
            /\ call[c].result.pages[1].figs = <<1>>
            /\ Len(pages[c]) = 1
            /\ pages[c][1].nrows = 7 /\ pages[c][1].ncols = 4
            /\ Tiles(PanelsOn(c, 1), 7, 4)
            /\ PanelsOn(c, 1) =
                   << <<"plot_nav", Block(0, 0, 0, 1)>>,
                      <<"plot_drawdowns", Block(1, 1, 0, 1)>>,
                      <<"plot_rolling_time_under_water", Block(2, 2, 0, 1)>>,
                      <<"plot_exposures", Block(3, 3, 0, 1)>>,
                      <<"plot_turnover", Block(4, 4, 0, 1)>>,
                      <<"plot_costs", Block(5, 5, 0, 1)>>,
                      <<"plot_factor_betas", Block(6, 6, 0, 1)>>,
                      <<"plot_performance_bars", {<<0, 2>>}>>,
                      <<"plot_performance_bars", {<<0, 3>>}>>,
                      <<"plot_periodic_returns", Block(1, 1, 2, 3)>>,
                      <<"plot_ra_perf_table", Block(2, 2, 2, 3)>>,
                      <<"plot_ra_perf_table", Block(3, 3, 2, 3)>>,
                      <<"plot_regime_data", Block(4, 4, 2, 3)>>,
                      <<"plot_returns_scatter", Block(5, 5, 2, 3)>>,
                      <<"plot_corr_table", Block(6, 6, 2, 3)>> >>

C16_Witness ==
    /\ Returned("c1", MULTI)
    /\ Len(PanelsOn("c1", 1)) = 15
    /\ Cardinality(UNION {PanelsOn("c1", 1)[j][2] : j \in 1 .. 15}) = 28

\* C17: the primary page of generate_strategy_benchmark_factsheet_plt is a
\* 14x4 grid of which every cell is covered by exactly one panel: seven
\* two-row panels in the left two columns and, in the right two columns, two
\* performance tables, two single-column periodic-return panels, two
\* single-column regime panels, the instrument P&L difference, the factor
\* betas and the returns scatter.
PrimaryDone(c) ==
    /\ Started(c)
    /\ call[c].in.fn = SBF
    /\ call[c].pc \notin {"entry", "primary", "raised"}

C17_PrimaryPageLayout ==
    \A c \in Callers :
        PrimaryDone(c) =>
            /\ pages[c][1].kind = "primary"
            /\ pages[c][1].nrows = 14 /\ pages[c][1].ncols = 4
            /\ Tiles(PanelsOn(c, 1), 14, 4)
            /\ PanelsOn(c, 1) =
                   << <<"plot_nav", Block(0, 1, 0, 1)>>,
                      <<"plot_drawdowns", Block(2, 3, 0, 1)>>,
                      <<"plot_rolling_time_under_water", Block(4, 5, 0, 1)>>,
                      <<"plot_rolling_perf", Block(6, 7, 0, 1)>>,
                      <<"plot_exposures", Block(8, 9, 0, 1)>>,
                      <<"plot_turnover", Block(10, 11, 0, 1)>>,
                      <<"plot_costs", Block(12, 13, 0, 1)>>,
                      <<"plot_ac_ra_perf_table", Block(0, 1, 2, 3)>>,
                      <<"plot_ac_ra_perf_table", Block(2, 3, 2, 3)>>,
                      <<"plot_periodic_returns", Block(4, 5, 2, 2)>>,
                      <<"plot_periodic_returns", Block(4, 5, 3, 3)>>,
                      <<"plot_regime_data", Block(6, 7, 2, 2)>>,
                      <<"plot_regime_data", Block(6, 7, 3, 3)>>,
                      <<"plot_instrument_pnl_diff", Block(8, 9, 2, 3)>>,
                      <<"plot_factor_betas", Block(10, 11, 2, 3)>>,
                      <<"plot_returns_scatter", Block(12, 13, 2, 3)>> >>

C17_Witness ==
    /\ Returned("c1", SBF)
    /\ Len(PanelsOn("c1", 1)) = 16
    /\ Cardinality(UNION {PanelsOn("c1", 1)[j][2] : j \in 1 .. 16}) = 56

\* C18: with add_brinson_attribution the comparison factsheet adds exactly
\* one page, a 3x2 grid: the cells (0,0), (0,1), (1,0), (1,1), (2,1) are
\* passed to plot_brinson_attribution with the interaction term excluded and
\* the given strategy_idx and benchmark_idx, and the cell (2,0) holds the
\* exposure difference, so every cell is used exactly once; without the
\* toggle neither call is made and no such page exists.
BrinsonPages(c) == {i \in 1 .. Len(pages[c]) : pages[c][i].kind = "brinson"}

BrinsonDone(c) ==
    /\ Started(c)
    /\ call[c].in.fn = SBF
    /\ call[c].pc \notin {"entry", "primary", "brinson", "raised"}

C18_BrinsonPage ==
    \A c \in Callers :
        /\ (BrinsonDone(c) /\ call[c].in.add_brinson_attribution) =>
               /\ Cardinality(BrinsonPages(c)) = 1
               /\ \A i \in BrinsonPages(c) :
                      /\ pages[c][i].nrows = 3 /\ pages[c][i].ncols = 2
                      /\ Tiles(PanelsOn(c, i), 3, 2)
                      /\ PanelsOn(c, i) =
                             << <<"plot_brinson_attribution",
                                  {<<0, 0>>, <<0, 1>>, <<1, 0>>, <<1, 1>>, <<2, 1>>}>>,
                                <<"plot_exposures_diff", {<<2, 0>>}>> >>
               /\ Cardinality(Entries(c, "plot_brinson_attribution")) = 1
               /\ \A j \in Entries(c, "plot_brinson_attribution") :
                      LET a == LogOf(c)[j].args IN
                      /\ a.axs = <<<<0, 0>>, <<0, 1>>, <<1, 0>>, <<1, 1>>, <<2, 1>>>>
                      /\ a.is_exclude_interaction_term = TRUE
                      /\ a.strategy_idx = call[c].in.strategy_idx
                      /\ a.benchmark_idx = call[c].in.benchmark_idx
        /\ (Started(c) /\ call[c].in.fn = SBF /\ ~call[c].in.add_brinson_attribution) =>
               /\ BrinsonPages(c) = {}
               /\ Entries(c, "plot_brinson_attribution") = {}
               /\ Entries(c, "plot_exposures_diff") = {}

C18_Witness ==
    /\ Returned("c1", SBF)
    /\ call["c1"].in.add_brinson_attribution
    /\ call["c1"].in.strategy_idx = 1
    /\ call["c1"].in.benchmark_idx = 0
    /\ BrinsonPages("c1") = {2}
    /\ \E j \in Entries("c1", "plot_brinson_attribution") :
           LogOf("c1")[j].args.strategy_idx = 1

\* C19: the first page of generate_strategy_benchmark_active_perf_plt is a
\* 3x2 grid with every cell used by exactly one axes: NAV at (0,0), the
\* cumulative active total, allocation and selection returns down the right
\* column, each labelled with its terminal cumulative value, the weights
\* boxplot by groups at (1,0) and by instruments at (2,0), both at the
\* caller's weight_freq; both boxplots get the zero floor when is_long_only
\* and neither gets it otherwise.
ActiveDone(c) ==
    /\ Started(c)
    /\ call[c].in.fn = ACTIVE
    /\ call[c].pc \notin {"entry", "active_perf", "raised"}

AxesOn(c, i) == {PanelsOn(c, i)[j][2] : j \in 1 .. Len(PanelsOn(c, i))}

Floor(in, cell) == IF in.is_long_only THEN << <<"set_y_limits", {cell}>> >> ELSE <<>>

C20_RiskContributionsAtCallerFrequency ==
    \A c \in Callers :
        (Started(c) /\ call[c].in.fn = WTE) =>
            /\ \A j \in Entries(c, "compute_risk_contributions_implied_by_covar") :
                   /\ LogOf(c)[j].args.covar_dict = "multi_portfolio_data.covar_dict"
                   /\ "freq" \in DOMAIN call[c].in.kwargs =>
                          LogOf(c)[j].args.freq = call[c].in.kwargs.freq
            /\ call[c].status = "returned" =>
                   \A idx \in {call[c].in.strategy_idx, call[c].in.benchmark_idx} :
                       \A scheme \in {"short", "long"} :
                           \E j \in Entries(c, "compute_risk_contributions_implied_by_covar") :
                               /\ LogOf(c)[j].idx = idx
                               /\ "group_data" \in DOMAIN LogOf(c)[j].args
                               /\ LogOf(c)[j].args.group_data = scheme

\* C21 as stated: generate_performance_attribution_report returns exactly two
\* pages in order: the first holds the NAV panel and one P&L attribution
\* panel for each portfolio index of the input, the second the periodic P&L
\* attribution table at monthly frequency.
AttributionPanelIds(c) ==
    LET IsAttribution(e) == e.m = "plot_performance_attribution" /\ e.page = 1
        drawn == SelectSeq(LogOf(c), IsAttribution)
    IN [j \in 1 .. Len(drawn) |-> drawn[j].args.portfolio_ids]

C21_PanelPerPortfolio ==
    \A c \in Callers :
        Returned(c, ATTR) =>
            /\ call[c].result.kind = "list"
            /\ Len(ReturnedPages(c)) = 2
            /\ ReturnedPages(c)[1].kind = "attribution"
            /\ ReturnedPages(c)[2].kind = "attribution_table"
            /\ PanelsOn(c, 1)[1][1] = "plot_nav"
            /\ AttributionPanelIds(c) = [i \in 1 .. call[c].in.n |-> <<i - 1>>]
            /\ PanelsOn(c, 2) = << <<"plot_performance_periodic_table", Block(0, 0, 0, 0)>> >>
            /\ \A j \in Entries(c, "plot_performance_periodic_table") :
                   LogOf(c)[j].args.freq = "ME"

\* C22: with add_exposures_pnl_attribution the factsheet adds exactly one
\* page, on a grid of two columns and as many rows as the strategy's grouped
\* exposures have groups; row g holds the net exposure panel of group g in
\* column 0 and its cumulative P&L panel in column 1 and nothing else, each
\* pairing the strategy's with the benchmark's series of that group; without
\* the toggle there is no such page.
ExposuresPnlPages(c) == {i \in 1 .. Len(pages[c]) : pages[c][i].kind = "exposures_pnl"}

ExposuresPnlDone(c) ==
    /\ Started(c)
    /\ call[c].in.fn = SBF
    /\ call[c].pc \in {"strategy_factsheet", "return", "returned"}

\* the time series panels on page i of caller c, in the order of their calls
SeriesOn(c, i) ==
    LET OnPage(e) == e.page = i /\ e.m = "plot_time_series" IN SelectSeq(LogOf(c), OnPage)

C22_GroupedAttributionPage ==
    \A c \in Callers :
        /\ (ExposuresPnlDone(c) /\ call[c].in.add_exposures_pnl_attribution) =>
               /\ Cardinality(ExposuresPnlPages(c)) = 1
               /\ \A i \in ExposuresPnlPages(c) :
                      LET in == call[c].in
                          drawn == SeriesOn(c, i)
                      IN /\ pages[c][i].ncols = 2
                         /\ pages[c][i].nrows = in.ngroups
                         /\ Len(drawn) = 2 * in.ngroups
                         /\ Tiles([j \in 1 .. Len(drawn) |-> <<drawn[j].m, drawn[j].cells>>],
                                  in.ngroups, 2)
                         /\ \A g \in 0 .. (in.ngroups - 1) :
                                /\ drawn[2 * g + 1].cells = {<<g, 0>>}
                                /\ drawn[2 * g + 1].args.df =
                                       [table |-> "aggregated net exposures", inst |-> g,
                                        columns |-> <<in.strategy_idx, in.benchmark_idx>>]
                                /\ drawn[2 * g + 2].cells = {<<g, 1>>}
                                /\ drawn[2 * g + 2].args.df =
                                       [table |-> "cumulative P&L attribution", inst |-> g,
                                        columns |-> <<in.strategy_idx, in.benchmark_idx>>]
        /\ (Started(c) /\ call[c].in.fn = SBF /\ ~call[c].in.add_exposures_pnl_attribution) =>
               ExposuresPnlPages(c) = {}

C22_Witness ==
    /\ Returned("c1", SBF)
    /\ call["c1"].in.add_exposures_pnl_attribution
    /\ call["c1"].in.ngroups = MaxGroups
    /\ call["c1"].in.ninst # MaxGroups
    /\ \E i \in ExposuresPnlPages("c1") :
           /\ pages["c1"][i].nrows = MaxGroups
           /\ Len(SeriesOn("c1", i)) = 2 * MaxGroups

\* C23: with add_exposures_comp the factsheet appends exactly one page per
\* column of the aligned strategy weights, in column order, each a 2x1 grid
\* with the exposures panel above the turnover panel, both pairing the
\* strategy's with the benchmark's series of that column; the pages are in
\* the returned list in that order; without the toggle there is no such page.
ExposuresCompPages(c) == {i \in 1 .. Len(pages[c]) : pages[c][i].kind = "exposures_comp"}

ExposuresCompDone(c) ==
    /\ Started(c)
    /\ call[c].in.fn = SBF
    /\ call[c].pc \in {"exposures_pnl", "strategy_factsheet", "return", "returned"}

IsExposuresComp(page) == page.kind = "exposures_comp"

C23_PagePerInstrument ==
    \A c \in Callers :
        /\ (ExposuresCompDone(c) /\ call[c].in.add_exposures_comp) =>
               LET in == call[c].in IN
               /\ Cardinality(ExposuresCompPages(c)) = in.ninst
               /\ \A j \in 1 .. in.ninst :
                      \E i \in ExposuresCompPages(c) :
                          /\ pages[c][i].of = j
                          /\ Cardinality({i2 \in ExposuresCompPages(c) : i2 < i}) = j - 1
                          /\ pages[c][i].nrows = 2 /\ pages[c][i].ncols = 1
                          /\ Len(SeriesOn(c, i)) = 2
                          /\ SeriesOn(c, i)[1].cells = {<<0, 0>>}
                          /\ SeriesOn(c, i)[1].args.title = "Exposures"
                          /\ SeriesOn(c, i)[1].args.df =
                                 [table |-> "weights", inst |-> j,
                                  columns |-> <<in.strategy_idx, in.benchmark_idx>>]
                          /\ SeriesOn(c, i)[2].cells = {<<1, 0>>}
                          /\ SeriesOn(c, i)[2].args.title = "Turnover"
                          /\ SeriesOn(c, i)[2].args.df =
                                 [table |-> "turnover", inst |-> j,
                                  columns |-> <<in.strategy_idx, in.benchmark_idx>>]
               /\ call[c].status = "returned" =>
                      LET comp == SelectSeq(ReturnedPages(c), IsExposuresComp)
                      IN /\ Len(comp) = in.ninst
                         /\ \A j \in 1 .. in.ninst : comp[j].of = j
        /\ (Started(c) /\ call[c].in.fn = SBF /\ ~call[c].in.add_exposures_comp) =>
               ExposuresCompPages(c) = {}

C23_Witness ==
    /\ Returned("c1", SBF)
    /\ call["c1"].in.add_exposures_comp
    /\ call["c1"].in.ninst = MaxInstruments
    /\ Cardinality(ExposuresCompPages("c1")) = MaxInstruments
    /\ Len(SelectSeq(ReturnedPages("c1"), IsExposuresComp)) = MaxInstruments

\* C24: when an entry point returns, the pages it returns are exactly the
\* pages created during the call, the pages of the sub-factsheets included:
\* each of them is in the result once, as a page and not as a nested list,
\* no page is returned twice or under two names, and nothing else is
\* returned.
CreatedPages(c) == 1 .. Len(pages[c])

C24_ReturnedPagesAreCreatedPages ==
    \A c \in Callers :
        call[c].status = "returned" =>
            LET r == call[c].result IN
            IF r.kind = "pair"
            THEN /\ \A a \in DOMAIN r.pages : \A b \in (DOMAIN r.pages) \ {a} :
                        r.pages[a] # r.pages[b]
                 /\ {r.pages[a] : a \in DOMAIN r.pages} = CreatedPages(c)
            ELSE /\ \A j \in 1 .. Len(r.pages) :
                        ~r.pages[j].list /\ Len(r.pages[j].figs) = 1
                 /\ \A j \in 1 .. Len(r.pages) : \A k \in (j + 1) .. Len(r.pages) :
                        r.pages[j].figs[1] # r.pages[k].figs[1]
                 /\ {r.pages[j].figs[1] : j \in 1 .. Len(r.pages)} = CreatedPages(c)

C24_Witness ==
    /\ Returned("c1", SBF)
    /\ call["c1"].in.add_strategy_factsheet
    /\ call["c1"].in.add_exposures_comp
    /\ call["c1"].in.n = MaxPortfolios
    /\ Len(call["c1"].result.pages) = Len(pages["c1"])
    /\ Len(pages["c1"]) >= 1 + MaxPortfolios + MaxInstruments

\* C25: the one-year-shifted window and the weekly regression override reach
\* the second performance table only.  The base configuration keeps the
\* reporting window and gets no override while the primary page is drawn, so
\* the first table, every later panel of the primary page and every optional
\* page receive the reporting window and, unless the caller passed one, no
\* regression frequency.
BaseConfiguration(kwargs, in) ==
    /\ kwargs.time_period = Window(in)
    /\ "alpha_an_factor" \notin DOMAIN kwargs
    /\ "freq_reg" \in DOMAIN kwargs =>
           "freq_reg" \in DOMAIN in.kwargs /\ kwargs.freq_reg = in.kwargs.freq_reg

C25_OverridesScopedToSecondTable ==
    \A c \in Callers :
        (Started(c) /\ call[c].in.fn = SBF) =>
            LET in == call[c].in
                w == Window(in)
            IN /\ call[c].pc \notin {"entry", "raised"} =>
                      BaseConfiguration(call[c].kwargs, in)
               /\ \A j \in 1 .. Len(LogOf(c)) :
                      LET e == LogOf(c)[j] IN
                      IF IsSecondTable(e)
                      THEN /\ e.args.time_period = <<w[2] - 1, w[2]>>
                           /\ in.bfreq \in {"B", "D"} =>
                                  e.args.freq_reg = "W-WED" /\ e.args.alpha_an_factor = 52
                      ELSE /\ "time_period" \in DOMAIN e.args => e.args.time_period = w
                           /\ "alpha_an_factor" \notin DOMAIN e.args
                           /\ "freq_reg" \in DOMAIN e.args =>
                                  /\ "freq_reg" \in DOMAIN in.kwargs
                                  /\ e.args.freq_reg = in.kwargs.freq_reg

C25_Witness ==
    /\ Returned("c1", SBF)
    /\ call["c1"].in.bfreq = "B"
    /\ call["c1"].in.time_period = GivenTimePeriod
    /\ \E j \in Entries("c1", "plot_ac_ra_perf_table") :
           /\ IsSecondTable(LogOf("c1")[j])
           /\ LogOf("c1")[j].args.alpha_an_factor = 52
           /\ LogOf("c1")[j].args.time_period # GivenTimePeriod
           /\ \E k \in Entries("c1", "plot_periodic_returns") :
                  k > j /\ LogOf("c1")[k].args.time_period = GivenTimePeriod
           /\ \E k \in Entries("c1", "plot_brinson_attribution") :
                  k > j /\ LogOf("c1")[k].args.time_period = GivenTimePeriod
    /\ call["c1"].kwargs.time_period = GivenTimePeriod

\* C26: the calls that populate the primary page do not depend on
\* strategy_idx and benchmark_idx: two calls of
\* generate_strategy_benchmark_factsheet_plt whose inputs differ in nothing
\* but these indices decide the grouping alike, use the same window and make
\* the same calls, with the same arguments and on the same portfolios, up to
\* the last panel of the primary page; their sub-factsheets are requested
\* alike too.
PrimaryLog(c) ==
    LET at == {j \in 1 .. Len(LogOf(c)) : LogOf(c)[j].page = 1}
    IN IF at = {} THEN <<>>
       ELSE SubSeq(LogOf(c), 1, CHOOSE j \in at : \A j2 \in at : j2 <= j)

SameButIndices(in1, in2) ==
    [in1 EXCEPT !.strategy_idx = 0, !.benchmark_idx = 1]
        = [in2 EXCEPT !.strategy_idx = 0, !.benchmark_idx = 1]

IsSubFactsheet(e) == e.m = GSF

C26_PrimaryPageIgnoresIndices ==
    \A c \in Callers : \A d \in Callers :
        (PrimaryDone(c) /\ PrimaryDone(d) /\ SameButIndices(call[c].in, call[d].in)) =>
            /\ call[c].is_grouped = call[d].is_grouped
            /\ call[c].time_period = call[d].time_period
            /\ call[c].kwargs = call[d].kwargs
            /\ pages[c][1] = pages[d][1]
            /\ PrimaryLog(c) = PrimaryLog(d)
            /\ (Returned(c, SBF) /\ Returned(d, SBF)) =>
                   SelectSeq(LogOf(c), IsSubFactsheet) = SelectSeq(LogOf(d), IsSubFactsheet)

C26_Witness ==
    /\ Returned("c1", SBF) /\ Returned("c2", SBF)
    /\ SameButIndices(call["c1"].in, call["c2"].in)
    /\ call["c1"].in.strategy_idx = 0 /\ call["c2"].in.strategy_idx = 1
    /\ call["c1"].in.add_strategy_factsheet
    /\ Len(PrimaryLog("c1")) > 16
    /\ \E j \in Entries("c1", "plot_brinson_attribution") :
           \E k \in Entries("c2", "plot_brinson_attribution") :
               LogOf("c1")[j].args.strategy_idx # LogOf("c2")[k].args.strategy_idx

====
